---- MODULE Spec2Model ----
(***************************************************************************)
(* Model of the vault sync plugin: the sync orchestrator (VaultSyncer),    *)
(* the change tracker (SyncTracker), the exclusion filter                  *)
(* (ExclusionChecker), the settings handler that saves exclusion rules,    *)
(* and the server as seen through the API client.                          *)
(*                                                                         *)
(* Strings are sequences of one-character strings, so that startsWith,     *)
(* endsWith and the normalisations of the code are computed, not assumed.  *)
(***************************************************************************)
EXTENDS Integers, Sequences, FiniteSets, TLC

VARIABLES
    vault,          \* the host's files: hot path -> note, or NoNote
    rules,          \* ExclusionChecker.rules
    tracker,        \* SyncTracker.state (in memory)
    serverNotes,    \* notes the server holds: path -> [hash, tags]
    serverRules,    \* exclusion rules the server holds
    pendingChanges, \* VaultSyncer.pendingChanges (insertion order)
    pendingDeletes, \* VaultSyncer.pendingDeletes (insertion order)
    debounceArmed,  \* a debounced processPendingChanges is scheduled
    isSyncing,      \* VaultSyncer.isSyncing
    status,         \* the last SyncStatus.state pushed to onStatusChange
    run,            \* per task: position and locals of fullSync / syncChanges
    saveExcl,       \* position and locals of the Save Exclusions handler
    ops,            \* number of operations the environment has started
    reconciled,     \* history: a full sync completed without error, and no
                    \* note and no rule has changed since it began
    now,            \* Date.now(), in milliseconds
    timestamps,     \* RateLimiter.timestamps
    callers,        \* per call of ApiClient.request: position and locals
    httpCalls,      \* history: times of the requestUrl calls of the last window
    sched,          \* ScheduledSyncManager: the last check and its interval
    mgr,            \* ScheduledSyncManager: fields, timers, checks in progress
    durable,        \* the sync state last written by saveData
    defaultHashes,  \* the object DEFAULT_SYNC_STATE.noteHashes
    aliased,        \* SyncTracker.state.noteHashes is that very object
    lastOp,         \* history: the last tracker operation and its outcome
    filterCall      \* history: the last call of shouldExclude and its result

syncVars == <<vault, rules, tracker, serverNotes, serverRules, pendingChanges,
              pendingDeletes, debounceArmed, isSyncing, status, run, saveExcl, ops,
              reconciled>>
clientVars == <<now, timestamps, callers, httpCalls>>
schedVars == <<sched, mgr>>
storeVars == <<durable, defaultHashes, aliased, lastOp>>
filterVars == <<filterCall>>
vars == <<syncVars, clientVars, schedVars, storeVars, filterVars>>

(***************************************************************************)
(* Bounds of the model.                                                    *)
(***************************************************************************)
NumFiller == 49
MaxOps == 2

(* Program constants. *)
BATCH_SIZE == 50

(***************************************************************************)
(* Strings.                                                                *)
(***************************************************************************)
StartsWith(s, pre) ==
    /\ Len(pre) <= Len(s)
    /\ SubSeq(s, 1, Len(pre)) = pre

EndsWith(s, suf) ==
    /\ Len(suf) <= Len(s)
    /\ SubSeq(s, Len(s) - Len(suf) + 1, Len(s)) = suf

SeqToSet(s) == {s[k] : k \in 1..Len(s)}

SeqRemove(s, x) == SelectSeq(s, LAMBDA y : y # x)

(* Set.add on an insertion-ordered set *)
SeqAdd(s, x) == IF x \in SeqToSet(s) THEN s ELSE Append(s, x)

RECURSIVE Concat(_)
Concat(ss) == IF ss = <<>> THEN <<>> ELSE Head(ss) \o Concat(Tail(ss))

Min(a, b) == IF a <= b THEN a ELSE b

(***************************************************************************)
(* Paths, tags and notes of the vault.                                     *)
(***************************************************************************)
(* A path is named by a number; PathStr gives its text.  The notes 1 to     *)
(* NumFiller never change ("f01.md", ...); the notes PathA ("a.md") and    *)
(* PathB ("p/b.md") are the ones the user edits.                           *)
Digits == <<"0", "1", "2", "3", "4", "5", "6", "7", "8", "9">>
DotMd == <<".", "m", "d">>
PathA == NumFiller + 1
PathB == NumFiller + 2
(* "a.txt": where a note goes when it is renamed to a file that is not     *)
(* markdown; such files are not part of the vault's notes                  *)
PathTxt == NumFiller + 3
DotTxt == <<".", "t", "x", "t">>

HotPaths == {PathA, PathB}
HotOrder == <<PathA, PathB>>
FillerPaths == 1..NumFiller
FillerOrder == [k \in 1..NumFiller |-> k]

PathStr(p) ==
    IF p = PathA THEN <<"a">> \o DotMd
    ELSE IF p = PathB THEN <<"p", "/", "b">> \o DotMd
    ELSE IF p = PathTxt THEN <<"a">> \o DotTxt
    ELSE <<"f", Digits[(p \div 10) + 1], Digits[(p % 10) + 1]>> \o DotMd

RawTags == {<<"d">>}
NoNote == [content |-> 0, tags |-> {}]
FillerNote == [content |-> 1, tags |-> {}]
Contents == {1, 2}
Notes == [content : Contents, tags : SUBSET RawTags]

(* the file the host holds at a path *)
FileAt(p) == IF p \in HotPaths THEN vault[p] ELSE FillerNote
Exists(p) == FileAt(p) # NoNote

(* VaultScanner.getMarkdownFiles: the host's listing, fillers first *)
GetMarkdownFiles == FillerOrder \o SelectSeq(HotOrder, LAMBDA p : vault[p] # NoNote)

(* hashContent: a digest that differs when the content differs *)
HashContent(c) == 1000 + c

NormalizeTag(t) == IF t = <<>> THEN <<>> ELSE IF Head(t) = "#" THEN t ELSE <<"#">> \o t

ExtractTags(raw) == {NormalizeTag(t) : t \in raw} \ {<<>>}

(* VaultScanner.scanFile of an existing file *)
ScanFile(p) ==
    [path |-> p, contentHash |-> HashContent(FileAt(p).content),
     tags |-> ExtractTags(FileAt(p).tags)]

(***************************************************************************)
(* ExclusionChecker.                                                       *)
(***************************************************************************)
NoRules == [folders |-> {}, tags |-> {}]

MatchesPath(r, path) ==
    \E folder \in r.folders :
        LET normalizedFolder ==
                IF EndsWith(folder, <<"/">>) THEN folder ELSE folder \o <<"/">>
        IN  StartsWith(path, normalizedFolder)

(* mutant: only the form with "#" is looked up *)
MatchesTagsPrefixedOnly(r, tags) ==
    \E tag \in tags :
        (IF StartsWith(tag, <<"#">>) THEN tag ELSE <<"#">> \o tag) \in r.tags

MatchesTags(r, tags) ==
    \E tag \in tags :
        LET normalizedTag == IF StartsWith(tag, <<"#">>) THEN tag ELSE <<"#">> \o tag
            withoutHash == Tail(normalizedTag)
        IN  normalizedTag \in r.tags \/ withoutHash \in r.tags

(* mutant: both kinds of rule must match *)
ShouldExcludeBoth(r, path, tags) == MatchesPath(r, path) /\ MatchesTags(r, tags)

ShouldExclude(r, path, tags) == MatchesPath(r, path) \/ MatchesTags(r, tags)

ShouldExcludeNote(r, note) ==
    MatchesPath(r, PathStr(note.path)) \/ MatchesTags(r, note.tags)

FilterFiles(r, files) ==
    SelectSeq(files, LAMBDA p : ~ShouldExclude(r, PathStr(p), ExtractTags(FileAt(p).tags)))

FilterNotes(r, notes) == SelectSeq(notes, LAMBDA n : ~ShouldExcludeNote(r, n))

RECURSIVE StripLeadingSlashes(_)
StripLeadingSlashes(s) ==
    IF s # <<>> /\ Head(s) = "/" THEN StripLeadingSlashes(Tail(s)) ELSE s

ParseFolderExclusions(lines) ==
    {LET f == StripLeadingSlashes(l)
     IN  IF EndsWith(f, <<"/">>) THEN f ELSE f \o <<"/">> : l \in lines \ {<<>>}}

ParseTagExclusions(lines) ==
    {IF StartsWith(l, <<"#">>) THEN l ELSE <<"#">> \o l : l \in lines \ {<<>>}}

(* what the user may type into the two text areas *)
FolderInputs == {{}, {<<"p">>}}
TagInputs == {{}, {<<"d">>}}

(***************************************************************************)
(* SyncTracker: the operations on the in-memory state.  Each of them is    *)
(* followed in the code by "await this.save()", which the actions model    *)
(* as a separate step that may fail.                                       *)
(***************************************************************************)
DEFAULT_SYNC_STATE == [noteHashes |-> <<>>, lastSyncTime |-> 0, serverExclusions |-> NoRules]

(* the record with the entries of hashes spread over those of t.noteHashes *)
(* mutant: updateHashes replaces the mapping instead of merging into it *)
UpdateHashesReplace(t, hashes) == [t EXCEPT !.noteHashes = hashes]

UpdateHashes(t, hashes) == [t EXCEPT !.noteHashes = hashes @@ t.noteHashes]

RemoveHashes(t, paths) ==
    [t EXCEPT !.noteHashes = [p \in (DOMAIN t.noteHashes) \ paths |-> t.noteHashes[p]]]

UpdateLastSyncTime(t, time) == [t EXCEPT !.lastSyncTime = time]

UpdateExclusions(t, r) == [t EXCEPT !.serverExclusions = r]

(***************************************************************************)
(* VaultSyncer: the pending queues.  q = [changes, deletes, armed].        *)
(***************************************************************************)
IsMarkdown(path) == EndsWith(PathStr(path), DotMd)

QueueChange(q, r, path, tags) ==
    IF ~IsMarkdown(path) THEN q
    ELSE IF ShouldExclude(r, PathStr(path), tags) THEN q
    ELSE [changes |-> SeqAdd(q.changes, path),
          deletes |-> SeqRemove(q.deletes, path),
          armed |-> TRUE]

(* mutant: queueDelete leaves the path in pendingChanges *)
QueueDeleteKeepsChange(q, path) ==
    IF ~IsMarkdown(path) THEN q
    ELSE [changes |-> q.changes,
          deletes |-> SeqAdd(q.deletes, path),
          armed |-> TRUE]

QueueDelete(q, path) ==
    IF ~IsMarkdown(path) THEN q
    ELSE [changes |-> SeqRemove(q.changes, path),
          deletes |-> SeqAdd(q.deletes, path),
          armed |-> TRUE]

(* newNote is the file the host holds at newPath, NoNote when there is none *)
QueueRename(q, r, oldPath, newPath, newNote) ==
    IF ~IsMarkdown(oldPath) \/ ~IsMarkdown(newPath) THEN q
    ELSE LET q1 == [q EXCEPT !.deletes = SeqAdd(q.deletes, oldPath),
                             !.changes = SeqRemove(q.changes, oldPath)]
             q2 == IF newNote # NoNote
                   THEN QueueChange(q1, r, newPath, ExtractTags(newNote.tags))
                   ELSE q1
         IN  [q2 EXCEPT !.armed = TRUE]

Queue == [changes |-> pendingChanges, deletes |-> pendingDeletes, armed |-> debounceArmed]

SetQueue(q) ==
    /\ pendingChanges' = q.changes
    /\ pendingDeletes' = q.deletes
    /\ debounceArmed' = q.armed

(***************************************************************************)
(* Vault events delivered by the host (auto-sync handlers of main.ts).     *)
(***************************************************************************)
(* what the runs in progress have read of the vault and of the rules is   *)
(* no longer current                                                       *)
Disturb(rn) ==
    [s \in DOMAIN rn |-> IF rn[s].pc # "idle" THEN [rn[s] EXCEPT !.dirty = TRUE] ELSE rn[s]]

EnvFrame ==
    /\ ops < MaxOps
    /\ ops' = ops + 1
    /\ run' = Disturb(run)
    /\ reconciled' = FALSE
    /\ UNCHANGED <<rules, tracker, serverNotes, serverRules, isSyncing, status,
                   saveExcl, clientVars, schedVars, storeVars, filterVars>>

OnModify(p, note) ==
    /\ vault[p] # NoNote /\ note # vault[p]
    /\ vault' = [vault EXCEPT ![p] = note]
    /\ SetQueue(QueueChange(Queue, rules, p, ExtractTags(note.tags)))
    /\ EnvFrame

OnCreate(p, note) ==
    /\ vault[p] = NoNote
    /\ vault' = [vault EXCEPT ![p] = note]
    /\ SetQueue(QueueChange(Queue, rules, p, ExtractTags(note.tags)))
    /\ EnvFrame

OnDelete(p) ==
    /\ vault[p] # NoNote
    /\ vault' = [vault EXCEPT ![p] = NoNote]
    /\ SetQueue(QueueDelete(Queue, p))
    /\ EnvFrame

RenameTargets == HotPaths \cup {PathTxt}

OnRename(oldPath, newPath) ==
    /\ oldPath # newPath
    /\ vault[oldPath] # NoNote
    /\ newPath \in HotPaths => vault[newPath] = NoNote
    /\ vault' = IF newPath \in HotPaths
                THEN [vault EXCEPT ![oldPath] = NoNote, ![newPath] = vault[oldPath]]
                ELSE [vault EXCEPT ![oldPath] = NoNote]
    /\ SetQueue(QueueRename(Queue, rules, oldPath, newPath, vault[oldPath]))
    /\ EnvFrame

(***************************************************************************)
(* VaultSyncer: sync runs.  A task is a call of fullSync (from the command *)
(* or from the scheduler's syncTrigger) or of processPendingChanges (from  *)
(* the debounce timer).  run[s] holds the task's position and locals:      *)
(*   pc       the await the task is suspended on                           *)
(*   toScan   files still to scan; scanned: the notes scanned so far       *)
(*   notes    the list handed to syncNotesBatched; i: its loop index       *)
(*   deletes  the paths handed to deleteNotes                              *)
(*   sent     the upload requests issued so far in this run: the slice     *)
(*            lo..hi of notes, the flag, and the rules in force then       *)
(*   acked    for each answered request, the paths its response rejected   *)
(*   written  the hashUpdates this run has handed to tracker.updateHashes  *)
(*   dirty    a vault event or a rule change happened since the run began  *)
(*   stamp0   the tracker's last-sync time when the run began              *)
(*   unread   the existing notes whose scan threw in this run              *)
(***************************************************************************)
FullTasks == {"manual", "sched"}
Tasks == FullTasks \cup {"drain"}

IdleRun ==
    [pc |-> "idle", kind |-> "none", toScan |-> <<>>, scanned |-> <<>>,
     notes |-> <<>>, i |-> 0, deletes |-> {}, sent |-> <<>>, acked |-> <<>>,
     written |-> <<>>, dirty |-> FALSE, stamp0 |-> 0, unread |-> {}]

StatusIdle == [state |-> "idle", error |-> ""]
StatusSyncing == [state |-> "syncing", error |-> ""]
StatusError(message) == [state |-> "error", error |-> message]

(* new Date(): a time later than the stamp it replaces *)
Now(t) == t.lastSyncTime + 1

RunLocalFrame ==
    UNCHANGED <<vault, rules, serverRules, pendingChanges, pendingDeletes,
                debounceArmed, saveExcl, ops, clientVars, schedVars, storeVars, filterVars>>

RunFrame == RunLocalFrame /\ UNCHANGED reconciled

(* Finish ends a run; the operators after it continue one up to its next   *)
(* await and leave isSyncing to the action that uses them.                 *)
(* The try block is left: the run emitted idle or catch emits the error;   *)
(* then finally.                                                           *)
Finish(s, t, st) ==
    /\ run' = [run EXCEPT ![s] = IdleRun]
    /\ tracker' = t
    /\ status' = st
    /\ isSyncing' = FALSE

(* mutant: the flag is not cleared on the error path *)
AbortNoFinally(s, t, message) ==
    /\ run' = [run EXCEPT ![s] = IdleRun]
    /\ tracker' = t
    /\ status' = StatusError(message)
    /\ UNCHANGED isSyncing

(* mutant: the error path stamps the time as well *)
AbortStamps(s, t, message) ==
    Finish(s, UpdateLastSyncTime(t, t.lastSyncTime + 1), StatusError(message))

Abort(s, t, message) == Finish(s, t, StatusError(message))

(* tracker.updateLastSyncTime(): the state is stamped, then the save awaited *)
Stamp(s, r, t, st) ==
    /\ run' = [run EXCEPT ![s] = [r EXCEPT !.pc = "saveTime"]]
    /\ tracker' = UpdateLastSyncTime(t, Now(t))
    /\ status' = st

(* deleteNotes(paths): returns at once on an empty list, else issues the call *)
DeleteNotes(s, r, t, st, paths) ==
    IF paths = {}
    THEN Stamp(s, r, t, st)
    ELSE /\ run' = [run EXCEPT ![s] = [r EXCEPT !.pc = "delete", !.deletes = paths]]
         /\ tracker' = t
         /\ status' = st

NotePaths(notes) == {notes[k].path : k \in 1..Len(notes)}

(* mutant: fullSync does not look for tracked paths that are gone *)
AfterBatchesKeepsStale(s, r, t, st) == DeleteNotes(s, r, t, st, r.deletes)

(* what follows syncNotesBatched in fullSync and in syncChanges *)
AfterBatches(s, r, t, st) ==
    IF r.kind = "full"
    THEN DeleteNotes(s, r, t, st, (DOMAIN t.noteHashes) \ NotePaths(r.notes))
    ELSE DeleteNotes(s, r, t, st, r.deletes)

(* mutant: the slice is one note too long *)
BatchEndOffByOne(i, n) == Min(i + BATCH_SIZE + 1, n)

BatchEnd(i, n) == Min(i + BATCH_SIZE, n)

(* mutant: > for >= *)
IsLastBatchStrict(i, n) == i + BATCH_SIZE > n

IsLastBatch(i, n) == i + BATCH_SIZE >= n

(* one iteration of the loop of syncNotesBatched up to the await of syncNotes *)
SendBatch(s, r, t, st) ==
    LET n == Len(r.notes)
        request == [lo |-> r.i + 1, hi |-> BatchEnd(r.i, n),
                    is_final_batch |-> IsLastBatch(r.i, n),
                    rules |-> rules]
    IN  /\ run' = [run EXCEPT ![s] = [r EXCEPT !.pc = "upload", !.sent = Append(@, request)]]
        /\ tracker' = t
        /\ status' = st

(* the loop condition of syncNotesBatched, at entry and after each batch *)
SyncNotesBatched(s, r, t, st) ==
    IF r.i < Len(r.notes)
    THEN SendBatch(s, r, t, st)
    ELSE AfterBatches(s, r, t, st)

(* the code after the scan: the second filter of fullSync, then the upload *)
AfterScan(s, r, t, st) ==
    \E notes \in {IF r.kind = "full" THEN FilterNotes(rules, r.scanned) ELSE r.scanned} :
        SyncNotesBatched(s, [r EXCEPT !.notes = notes, !.scanned = <<>>, !.i = 0], t, st)

(* getAbstractFileByPath(path) instanceof TFile fails: the loop goes on *)
RECURSIVE SkipMissing(_)
SkipMissing(paths) ==
    IF paths # <<>> /\ ~Exists(Head(paths)) THEN SkipMissing(Tail(paths)) ELSE paths

(* the unchanging notes of a list of files, scanned in one step: the       *)
(* listing has them first                                                  *)
FillerPrefix(paths) == SelectSeq(paths, LAMBDA p : p \in FillerPaths)

(* mutant: fullSync without its guard *)
FullSyncNoGuard == FALSE

(* the guards of fullSync and processPendingChanges *)
FullSyncBlocked == isSyncing

(* mutant: processPendingChanges without its guard *)
DrainNeverBlocked == FALSE

DrainBlocked == isSyncing

FullSync(s) ==
    /\ s \in FullTasks
    /\ run[s].pc = "idle"
    /\ IF FullSyncBlocked
       THEN UNCHANGED vars
       ELSE /\ ops < MaxOps
            /\ ops' = ops + 1
            /\ isSyncing' = TRUE
            /\ status' = StatusSyncing
            /\ run' = [run EXCEPT ![s] =
                         [IdleRun EXCEPT !.pc = "scan", !.kind = "full",
                                         !.stamp0 = tracker.lastSyncTime,
                                         !.toScan = FilterFiles(rules, GetMarkdownFiles)]]
            /\ UNCHANGED <<vault, rules, tracker, serverNotes, serverRules,
                           pendingChanges, pendingDeletes, debounceArmed, saveExcl,
                           reconciled, clientVars, schedVars, storeVars, filterVars>>

(* the debounce timer fires: processPendingChanges, then syncChanges *)
ProcessPendingChanges ==
    /\ debounceArmed
    /\ run["drain"].pc = "idle"
    /\ debounceArmed' = FALSE
    /\ UNCHANGED <<vault, rules, serverNotes, serverRules, saveExcl, ops, reconciled,
                   clientVars, schedVars, storeVars, filterVars>>
    /\ IF DrainBlocked
       THEN UNCHANGED <<tracker, pendingChanges, pendingDeletes, isSyncing, status, run>>
       ELSE /\ pendingChanges' = <<>>
            /\ pendingDeletes' = <<>>
            /\ IF pendingChanges = <<>> /\ pendingDeletes = <<>>
               THEN UNCHANGED <<tracker, isSyncing, status, run>>
               ELSE /\ isSyncing' = TRUE
                    /\ LET r == [IdleRun EXCEPT !.pc = "scan", !.kind = "incr",
                                                !.stamp0 = tracker.lastSyncTime,
                                                !.toScan = SkipMissing(pendingChanges),
                                                !.deletes = SeqToSet(pendingDeletes)]
                       IN  IF r.toScan = <<>>
                           THEN AfterScan("drain", r, tracker, StatusSyncing)
                           ELSE /\ run' = [run EXCEPT !["drain"] = r]
                                /\ status' = StatusSyncing
                                /\ UNCHANGED tracker

ScanNotes(paths) == [k \in 1..Len(paths) |-> ScanFile(paths[k])]

(* a scan completes: scanFiles in fullSync, scanFile in syncChanges *)
ScanOne(r) ==
    LET fillers == FillerPrefix(r.toScan)
        p == Head(r.toScan)
        note == ScanFile(p)
    IN  IF r.toScan = <<>> THEN r
        ELSE IF fillers # <<>>
        THEN [r EXCEPT !.scanned = @ \o ScanNotes(fillers),
                       !.toScan = SubSeq(@, Len(fillers) + 1, Len(@))]
        ELSE IF r.kind = "full"
        THEN [r EXCEPT !.scanned = IF Exists(p) THEN Append(@, note) ELSE @,
                       !.toScan = Tail(@)]
        ELSE [r EXCEPT !.scanned = IF Exists(p) /\ ~ShouldExcludeNote(rules, note)
                                   THEN Append(@, note) ELSE @,
                       !.toScan = SkipMissing(Tail(@))]

(* scanFile of the note at the head throws though the file exists (the     *)
(* read fails): scanFiles and syncChanges log the error and go on          *)
ScanThrows(r) ==
    LET p == Head(r.toScan)
    IN  [r EXCEPT !.unread = @ \cup {p},
                  !.toScan = IF r.kind = "full" THEN Tail(@) ELSE SkipMissing(Tail(@))]

(* the outcomes of the scan at the head of the list; the reads of the      *)
(* unchanging notes succeed                                                *)
ScanOutcomes(r) ==
    {ScanOne(r)} \cup
    (IF r.toScan # <<>> /\ Head(r.toScan) \in HotPaths /\ Exists(Head(r.toScan))
     THEN {ScanThrows(r)} ELSE {})

ScanStep(s) ==
    /\ run[s].pc = "scan"
    /\ RunLocalFrame
    /\ \E r2 \in ScanOutcomes(run[s]) :
          /\ reconciled' = (reconciled /\ r2.unread = run[s].unread)
          /\ IF r2.toScan = <<>>
             THEN AfterScan(s, r2, tracker, status)
             ELSE /\ run' = [run EXCEPT ![s] = r2]
                  /\ UNCHANGED <<tracker, status>>
    /\ UNCHANGED <<isSyncing, serverNotes>>

(* the paths for which the server's response may list a per-item error *)
ErrCandidates == HotPaths

BatchNotes(r, k) == SubSeq(r.notes, r.sent[k].lo, r.sent[k].hi)

(* mutant: the per-item errors are ignored *)
HashUpdatesIgnoreErrors(batch, errors) ==
    [p \in {batch[k].path : k \in 1..Len(batch)} |->
        batch[CHOOSE k \in 1..Len(batch) : batch[k].path = p].contentHash]

(* hashUpdates of syncNotesBatched: the notes of the batch without an error *)
HashUpdates(batch, errors) ==
    LET ok == {k \in 1..Len(batch) : batch[k].path \notin errors}
    IN  [p \in {batch[k].path : k \in ok} |->
            batch[CHOOSE k \in ok : batch[k].path = p].contentHash]

(* the server stores the notes of a request it accepted *)
ServerStore(sn, batch, errors) ==
    LET ok == {k \in 1..Len(batch) : batch[k].path \notin errors}
    IN  [p \in {batch[k].path : k \in ok} |->
            LET n == batch[CHOOSE k \in ok : batch[k].path = p]
            IN  [hash |-> n.contentHash, tags |-> n.tags]] @@ sn

ServerDelete(sn, paths) == [p \in (DOMAIN sn) \ paths |-> sn[p]]

(* PUT /api/vault/exclusions removes the notes the new rules exclude *)
ServerApplyExclusions(sn, r) ==
    [p \in {q \in DOMAIN sn : ~ShouldExclude(r, PathStr(q), sn[q].tags)} |-> sn[p]]

(* mutant: the response is not reconciled with the tracker *)
UploadResponseSkipsTracker(s, errors) ==
    /\ run[s].pc = "upload"
    /\ RunFrame
    /\ errors \subseteq NotePaths(BatchNotes(run[s], Len(run[s].sent)))
    /\ serverNotes' = ServerStore(serverNotes, BatchNotes(run[s], Len(run[s].sent)), errors)
    /\ run' = [run EXCEPT ![s] = [run[s] EXCEPT !.pc = "saveHashes",
                                               !.acked = Append(@, errors)]]
    /\ UNCHANGED <<tracker, isSyncing, status>>

(* syncNotes answers: the tracker is updated and its save awaited *)
UploadResponse(s, errors) ==
    /\ run[s].pc = "upload"
    /\ RunFrame
    /\ \E batch \in {BatchNotes(run[s], Len(run[s].sent))} :
          /\ errors \subseteq NotePaths(batch)
          /\ serverNotes' = ServerStore(serverNotes, batch, errors)
          /\ \E hashUpdates \in {HashUpdates(batch, errors)} :
                /\ tracker' = UpdateHashes(tracker, hashUpdates)
                /\ run' = [run EXCEPT ![s] = [run[s] EXCEPT !.pc = "saveHashes",
                                                            !.acked = Append(@, errors),
                                                            !.written = hashUpdates @@ @]]
    /\ UNCHANGED <<isSyncing, status>>

(* mutant: the failure is swallowed and the loop goes on *)
UploadFailGoesOn(s) ==
    /\ run[s].pc = "upload"
    /\ RunFrame
    /\ SyncNotesBatched(s, [run[s] EXCEPT !.i = @ + BATCH_SIZE], tracker, status)
    /\ UNCHANGED <<isSyncing, serverNotes>>

(* syncNotes throws after the client's retries *)
UploadFail(s) ==
    /\ run[s].pc = "upload"
    /\ RunFrame
    /\ Abort(s, tracker, "network")
    /\ UNCHANGED serverNotes

(* the save of updateHashes returns or throws; then the next iteration *)
SaveHashesDone(s, ok) ==
    /\ run[s].pc = "saveHashes"
    /\ RunFrame
    /\ IF ok
       THEN /\ SyncNotesBatched(s, [run[s] EXCEPT !.i = @ + BATCH_SIZE], tracker, StatusSyncing)
            /\ UNCHANGED isSyncing
       ELSE Abort(s, tracker, "persist")
    /\ UNCHANGED serverNotes

(* deleteNotes: the call answers, the hashes are removed, the save awaited *)
DeleteResponse(s) ==
    /\ run[s].pc = "delete"
    /\ RunFrame
    /\ serverNotes' = ServerDelete(serverNotes, run[s].deletes)
    /\ tracker' = RemoveHashes(tracker, run[s].deletes)
    /\ run' = [run EXCEPT ![s].pc = "saveRemove"]
    /\ UNCHANGED <<isSyncing, status>>

DeleteFail(s) ==
    /\ run[s].pc = "delete"
    /\ RunFrame
    /\ Abort(s, tracker, "network")
    /\ UNCHANGED serverNotes

SaveRemoveDone(s, ok) ==
    /\ run[s].pc = "saveRemove"
    /\ RunFrame
    /\ IF ok
       THEN /\ Stamp(s, run[s], tracker, status)
            /\ UNCHANGED isSyncing
       ELSE Abort(s, tracker, "persist")
    /\ UNCHANGED serverNotes

(* the run of the task is a full sync that no change has disturbed, that  *)
(* read every note it scanned and whose responses listed no per-item error *)
CleanFullRun(r) ==
    /\ r.kind = "full"
    /\ ~r.dirty
    /\ r.unread = {}
    /\ \A k \in 1..Len(r.acked) : r.acked[k] = {}

SaveTimeDone(s, ok) ==
    /\ run[s].pc = "saveTime"
    /\ RunLocalFrame
    /\ IF ok
       THEN /\ Finish(s, tracker, StatusIdle)
            /\ reconciled' = (reconciled \/ CleanFullRun(run[s]))
       ELSE /\ Abort(s, tracker, "persist")
            /\ UNCHANGED reconciled
    /\ UNCHANGED serverNotes

(***************************************************************************)
(* Settings tab: the Save Exclusions button.                               *)
(***************************************************************************)
SaveFrame ==
    UNCHANGED <<vault, pendingChanges, pendingDeletes, debounceArmed, isSyncing,
                status, run, reconciled, clientVars, schedVars, storeVars, filterVars>>

SaveExclusionsClick(folderInput, tagInput) ==
    /\ saveExcl.pc = "idle"
    /\ ops < MaxOps
    /\ ops' = ops + 1
    /\ saveExcl' = [pc |-> "put",
                    rules |-> [folders |-> ParseFolderExclusions(folderInput),
                               tags |-> ParseTagExclusions(tagInput)]]
    /\ UNCHANGED <<rules, tracker, serverNotes, serverRules>>
    /\ SaveFrame

(* updateExclusions answers: the checker and the tracker take the new rules *)
SaveExclusionsResponse ==
    /\ saveExcl.pc = "put"
    /\ serverRules' = saveExcl.rules
    /\ serverNotes' = ServerApplyExclusions(serverNotes, saveExcl.rules)
    /\ rules' = saveExcl.rules
    /\ tracker' = UpdateExclusions(tracker, saveExcl.rules)
    /\ saveExcl' = [saveExcl EXCEPT !.pc = "save"]
    /\ run' = Disturb(run)
    /\ reconciled' = FALSE
    /\ UNCHANGED <<ops, vault, pendingChanges, pendingDeletes, debounceArmed,
                   isSyncing, status, clientVars, schedVars, storeVars, filterVars>>

SaveExclusionsFail ==
    /\ saveExcl.pc = "put"
    /\ saveExcl' = [pc |-> "idle", rules |-> NoRules]
    /\ UNCHANGED <<rules, tracker, serverNotes, serverRules, ops>>
    /\ SaveFrame

(* the save of updateExclusions returns or throws: the handler ends *)
SaveExclusionsSaved ==
    /\ saveExcl.pc = "save"
    /\ saveExcl' = [pc |-> "idle", rules |-> NoRules]
    /\ UNCHANGED <<rules, tracker, serverNotes, serverRules, ops>>
    /\ SaveFrame

(***************************************************************************)
(* ApiClient: the rate limiter and the retry loop of request().            *)
(***************************************************************************)
(* Bounds: concurrent calls of request(), and how long time passes on its  *)
(* own; beyond MaxIdleTime it advances only to reach a pending timer.      *)
NumCallers == 11
MaxIdleTime == 1000

(* Program constants. *)
maxRequests == 10
windowMs == 1000
retries == 3
InitialDelay == 1000
MaxDelay == 30000

(* the grain of Date.now() and of the timers, in milliseconds *)
TickMs == 500

Callers == 1..NumCallers

(* what requestUrl gives: a response with a status and a JSON body, or a   *)
(* rejection (DNS, connection refused, timeout), written as status 0       *)
Statuses == {200, 401, 429, 500}
NoBody == [error |-> "", code |-> "", details |-> ""]
Bodies == {NoBody, [error |-> "denied", code |-> "bad_token", details |-> "token"]}
Rejection == [kind |-> "reject", status |-> 0, json |-> NoBody]
Responses == [kind : {"response"}, status : Statuses, json : Bodies]
Outcomes == Responses \cup {Rejection}

NoError == [name |-> "", message |-> <<>>, status |-> 0, code |-> "", details |-> ""]

(* an Error thrown by requestUrl itself *)
TransportError ==
    [name |-> "Error", message |-> <<"net">>, status |-> 0, code |-> "", details |-> ""]

ApiRequestError(message, st, code, details) ==
    [name |-> "ApiRequestError", message |-> message, status |-> st,
     code |-> IF code = "" THEN "unknown_error" ELSE code, details |-> details]

(* lines 175-181: the error built from a response that is not 2xx *)
ResponseError(o) ==
    ApiRequestError(IF o.json.error = "" THEN <<"HTTP", o.status>> ELSE <<o.json.error>>,
                    o.status, o.json.code, o.json.details)

(* mutant: every error goes on to the retry *)
NotRetriedNever(error) == FALSE

(* lines 186-190: client errors other than 429 are rethrown at once *)
NotRetried(error) ==
    /\ error.name = "ApiRequestError"
    /\ error.status >= 400 /\ error.status < 500 /\ error.status # 429

NoResult == [kind |-> "none", error |-> NoError]

IdleCaller ==
    [pc |-> "idle", attempt |-> 0, delay |-> 0, wake |-> 0, lastError |-> NoError,
     result |-> NoResult,
     log |-> <<>>,     \* history: the outcome of every attempt
     waits |-> <<>>,   \* history: the backoff sleeps, in order
     suspended |-> 0]  \* history: how often acquire() made the caller wait

ClientFrame == UNCHANGED <<syncVars, schedVars, storeVars, filterVars>>

(* mutant: nothing leaves the window *)
PruneKeepsAll(ts, t) == ts

(* the filter of acquire(): the timestamps still inside the window *)
Prune(ts, t) == SelectSeq(ts, LAMBDA x : t - x < windowMs)

(* requestUrl(params) is called: one outbound HTTP call *)
SendCall(cl) == [cl EXCEPT !.pc = "call"]

(* RateLimiter.acquire(), up to its await or its return; on return         *)
(* request() enters its loop and issues the first attempt                  *)
Acquire(c) ==
    \E ts \in {Prune(timestamps, now)} :
       IF Len(ts) >= maxRequests
       THEN /\ timestamps' = ts
            /\ \E waitTime \in {ts[1] + windowMs - now} :
                  callers' = [callers EXCEPT ![c] =
                                [@ EXCEPT !.pc = "limited", !.suspended = @ + 1,
                                          !.wake = IF waitTime > 0 THEN now + waitTime ELSE now]]
            /\ UNCHANGED httpCalls
       ELSE /\ timestamps' = Append(ts, now)
            /\ callers' = [callers EXCEPT ![c] =
                             SendCall([@ EXCEPT !.attempt = 0, !.delay = InitialDelay])]
            /\ httpCalls' = Append(Prune(httpCalls, now), now)

(* a caller enters request() *)
Request(c) ==
    /\ callers[c].pc = "idle"
    /\ now <= MaxIdleTime
    /\ Acquire(c)
    /\ UNCHANGED now
    /\ ClientFrame

(* the sleep of acquire() ends: acquire() is entered again *)
LimiterWake(c) ==
    /\ callers[c].pc = "limited"
    /\ now >= callers[c].wake
    /\ Acquire(c)
    /\ UNCHANGED now
    /\ ClientFrame

(* mutant: the loop runs once more *)
LoopContinuesOnceMore(attempt) == attempt <= retries + 1

(* line 162: the loop runs while attempt <= retries *)
LoopContinues(attempt) == attempt <= retries

(* mutant: a sleep follows every failed attempt *)
SleepsAfterEveryFailure(attempt) == attempt <= retries

(* line 193: a failed attempt is followed by a sleep while attempt < retries *)
SleepsBeforeRetry(attempt) == attempt < retries

(* attempt++ and the loop test: the next attempt is sent, or the loop ends *)
(* and line 203 throws the last error                                      *)
NextAttempt(cl) ==
    IF LoopContinues(cl.attempt + 1)
    THEN SendCall([cl EXCEPT !.attempt = @ + 1])
    ELSE [cl EXCEPT !.attempt = @ + 1, !.pc = "done",
                    !.result = [kind |-> "error", error |-> cl.lastError]]

(* the caller goes on as cl; a call it sends is recorded *)
Proceed(c, cl) ==
    /\ callers' = [callers EXCEPT ![c] = cl]
    /\ httpCalls' = IF cl.pc = "call" THEN Append(Prune(httpCalls, now), now) ELSE httpCalls

(* requestUrl settles with outcome o: lines 164-200 *)
Respond(c, o) ==
    /\ callers[c].pc = "call"
    /\ \E cl \in {[callers[c] EXCEPT !.log = Append(@, o)]} :
          IF o.kind = "response" /\ o.status >= 200 /\ o.status < 300
          THEN Proceed(c, [cl EXCEPT !.pc = "done",
                                     !.result = [kind |-> "json", error |-> NoError]])
          ELSE \E error \in {IF o.kind = "response" THEN ResponseError(o) ELSE TransportError} :
                  IF NotRetried(error)
                  THEN Proceed(c, [cl EXCEPT !.pc = "done", !.lastError = error,
                                             !.result = [kind |-> "error", error |-> error]])
                  ELSE IF SleepsBeforeRetry(cl.attempt)
                       THEN Proceed(c, [cl EXCEPT !.pc = "backoff", !.lastError = error,
                                                  !.wake = now + cl.delay,
                                                  !.waits = Append(@, cl.delay)])
                       ELSE Proceed(c, NextAttempt([cl EXCEPT !.lastError = error]))
    /\ UNCHANGED <<now, timestamps>>
    /\ ClientFrame

(* the backoff sleep ends: the delay doubles and the loop goes round *)
BackoffWake(c) ==
    /\ callers[c].pc = "backoff"
    /\ now >= callers[c].wake
    /\ Proceed(c, NextAttempt([callers[c] EXCEPT !.delay = Min(@ * 2, MaxDelay)]))
    /\ UNCHANGED <<now, timestamps>>
    /\ ClientFrame

Sleepers == {c \in Callers : callers[c].pc \in {"limited", "backoff"}}
InFlight == {c \in Callers : callers[c].pc = "call"}

(* time passes; a timer fires when it is due *)
Tick ==
    /\ now < MaxIdleTime \/ Sleepers # {}
    /\ \A c \in Sleepers : callers[c].wake >= now + TickMs
    /\ now' = now + TickMs
    /\ httpCalls' = Prune(httpCalls, now')
    /\ UNCHANGED <<timestamps, callers>>
    /\ ClientFrame

ClientInit ==
    /\ now = 0
    /\ timestamps = <<>>
    /\ callers = [c \in Callers |-> IdleCaller]
    /\ httpCalls = <<>>

(***************************************************************************)
(* ScheduledSyncManager: the interval until the next check.                *)
(***************************************************************************)
(* Bounds: the schedules a check may see, in minutes until the digest.     *)
StepMinutes == 5
MaxMinutes == 840

MsPerMinute == 60 * 1000

CHECK_INTERVALS ==
    << [hoursBeforeDigest |-> 12, checkEvery |-> 60 * MsPerMinute],
       [hoursBeforeDigest |-> 6, checkEvery |-> 30 * MsPerMinute],
       [hoursBeforeDigest |-> 2, checkEvery |-> 15 * MsPerMinute],
       [hoursBeforeDigest |-> 1, checkEvery |-> 10 * MsPerMinute] >>

DEFAULT_CHECK_INTERVAL == 60 * MsPerMinute

(* getCheckInterval, with hoursUntilDigest given in minutes: the first     *)
(* tier of CHECK_INTERVALS, in array order, whose bound is not exceeded    *)
GetCheckInterval(minutesUntilDigest) ==
    LET hit == {k \in 1..Len(CHECK_INTERVALS) :
                   minutesUntilDigest <= 60 * CHECK_INTERVALS[k].hoursBeforeDigest}
    IN  IF hit = {}
        THEN DEFAULT_CHECK_INTERVAL
        ELSE CHECK_INTERVALS[CHOOSE k \in hit : \A j \in hit : k <= j].checkEvery

(* what getSchedule gives a check: nothing usable (fetch failed, disabled, *)
(* no next digest), or a next digest some minutes away                     *)
NoSchedule == [known |-> FALSE, minutes |-> 0]
Schedules ==
    {NoSchedule} \cup
    [known : {TRUE}, minutes : {StepMinutes * k : k \in 1..(MaxMinutes \div StepMinutes)}]

(* checkAndSync, lines 122-127 and 151-153: the timer is set again *)
ScheduleNextCheck(schedule) ==
    /\ sched' = [checked |-> TRUE, schedule |-> schedule,
                 interval |-> IF schedule.known
                              THEN GetCheckInterval(schedule.minutes)
                              ELSE DEFAULT_CHECK_INTERVAL]
    /\ UNCHANGED <<syncVars, clientVars, mgr, storeVars, filterVars>>

SchedInit == sched = [checked |-> FALSE, schedule |-> NoSchedule, interval |-> 0]

(***************************************************************************)
(* ScheduledSyncManager: start, stop, the timer and the checks. Instants   *)
(* and periods of this part are in minutes.                                *)
(***************************************************************************)
(* Bounds: checks in progress at once, the last instant the clock reaches  *)
(* and the number of calls the plugin makes to the manager.                *)
MaxChecks == 2
MaxClock == 90
MaxManagerOps == 3

MIN_SYNC_INTERVAL == 30 * MsPerMinute

(* the grain of the clock *)
ClockStep == MIN_SYNC_INTERVAL \div MsPerMinute

CheckIds == 1..MaxChecks

(* what getSchedule gives: null (written with null = TRUE), or a schedule  *)
(* whose next_digest_utc is an instant or null (written -1)                *)
NullSchedule == [null |-> TRUE, is_enabled |-> FALSE, next_digest_utc |-> -1]
DigestTimes == {90, 300}
ServerSchedules ==
    [null : {FALSE}, is_enabled : {TRUE}, next_digest_utc : DigestTimes \cup {-1}]
    \cup {[null |-> FALSE, is_enabled |-> FALSE, next_digest_utc |-> -1]}

IdleCheck == [pc |-> "idle", schedule |-> NullSchedule, minutes |-> 0, ran |-> FALSE]

NoDecision ==
    [made |-> FALSE, fetchFailed |-> FALSE, schedule |-> NullSchedule, clock |-> 0,
     window |-> 0, stamp |-> -1, invoked |-> FALSE]

ManagerInit ==
    mgr = [scheduledSync |-> TRUE,      \* settings.scheduledSync
           hoursBefore |-> 2,           \* settings.scheduledSyncHoursBefore
           checkInterval |-> 0,         \* the timer handle, 0 for null
           timers |-> {},               \* the host's active interval timers
           lastScheduledSync |-> -1,    \* -1 for null
           cachedSchedule |-> NullSchedule,
           scheduleLastFetched |-> -1,  \* -1 for null
           clock |-> 0,
           checks |-> [k \in CheckIds |-> IdleCheck],
           manual |-> FALSE,            \* a sync started by a command is in flight
           ops |-> 0,
           calls |-> <<>>,              \* history: instants syncTrigger was called
           failures |-> 0,              \* history: fetches that failed
           decision |-> NoDecision]     \* history: what the last check decided on

(* the manager and the flag of the syncer its trigger meets *)
ManagerFrame ==
    UNCHANGED <<vault, rules, tracker, serverNotes, serverRules, pendingChanges,
                pendingDeletes, debounceArmed, status, run, saveExcl, ops, reconciled,
                clientVars, sched, storeVars, filterVars>>

FreshTimer(m) ==
    CHOOSE i \in 1..(Cardinality(m.timers) + 2) :
        i # m.checkInterval /\ \A t \in m.timers : t.id # i

(* mutant: the previous timer is left running *)
SetTimerLeaks(m, interval) ==
    [m EXCEPT !.timers = @ \cup {[id |-> FreshTimer(m), period |-> interval \div MsPerMinute,
                                  due |-> m.clock + interval \div MsPerMinute]},
              !.checkInterval = FreshTimer(m)]

(* scheduleNextCheck: clearInterval of the handle held, then setInterval *)
SetTimer(m, interval) ==
    [m EXCEPT !.timers = (IF m.checkInterval # 0
                          THEN {t \in @ : t.id # m.checkInterval}
                          ELSE @)
                         \cup {[id |-> FreshTimer(m), period |-> interval \div MsPerMinute,
                                due |-> m.clock + interval \div MsPerMinute]},
              !.checkInterval = FreshTimer(m)]

(* mutant: the cooldown is not consulted *)
ShouldTriggerSyncAlways(m) == TRUE

ShouldTriggerSync(m) ==
    \/ m.lastScheduledSync = -1
    \/ (m.clock - m.lastScheduledSync) * MsPerMinute >= MIN_SYNC_INTERVAL

(* getSchedule, lines 167-173: the cached schedule is less than an hour old *)
CacheValid(m) ==
    /\ ~m.cachedSchedule.null
    /\ m.scheduleLastFetched # -1
    /\ (m.clock - m.scheduleLastFetched) * MsPerMinute < DEFAULT_CHECK_INTERVAL

EndCheck(m, k) == [m EXCEPT !.checks[k] = IdleCheck]

Decided(m, schedule, failed, invoked) ==
    [m EXCEPT !.decision = [made |-> TRUE, fetchFailed |-> failed, schedule |-> schedule,
                            clock |-> m.clock, window |-> m.hoursBefore,
                            stamp |-> m.lastScheduledSync, invoked |-> invoked],
              !.failures = IF failed THEN @ + 1 ELSE @]

(* checkAndSync from the schedule in hand to the await of syncTrigger or   *)
(* to the reschedule: lines 122-153                                        *)
Decide(m, k, schedule, failed) ==
    IF schedule.null \/ ~schedule.is_enabled \/ schedule.next_digest_utc = -1
    THEN EndCheck(SetTimer(Decided(m, schedule, failed, FALSE), DEFAULT_CHECK_INTERVAL), k)
    ELSE LET minutes == schedule.next_digest_utc - m.clock
         IN  IF minutes > 0 /\ minutes <= 60 * m.hoursBefore /\ ShouldTriggerSync(m)
             THEN [Decided(m, schedule, failed, TRUE)
                     EXCEPT !.checks[k] = [pc |-> "sync", schedule |-> schedule,
                                           minutes |-> minutes, ran |-> ~isSyncing],
                            !.calls = Append(@, m.clock)]
             ELSE EndCheck(SetTimer(Decided(m, schedule, failed, FALSE),
                                    GetCheckInterval(minutes)), k)

(* checkAndSync up to its first await, getSchedule included *)
BeginCheck(m, k) ==
    IF ~m.scheduledSync
    THEN m
    ELSE [m EXCEPT !.checks[k] =
            [pc |-> IF CacheValid(m) THEN "cached" ELSE "fetch",
             schedule |-> IF CacheValid(m) THEN m.cachedSchedule ELSE NullSchedule,
             minutes |-> 0, ran |-> FALSE]]

FreeCheck(m) ==
    CHOOSE k \in CheckIds :
        m.checks[k].pc = "idle" /\ \A j \in 1..(k - 1) : m.checks[j].pc # "idle"

StartManager(m) ==
    IF m.checkInterval # 0
    THEN m
    ELSE IF ~m.scheduledSync
         THEN m
         ELSE SetTimer(BeginCheck(m, FreeCheck(m)), DEFAULT_CHECK_INTERVAL)

StopManager(m) ==
    IF m.checkInterval # 0
    THEN [m EXCEPT !.timers = {t \in @ : t.id # m.checkInterval}, !.checkInterval = 0]
    ELSE m

(* fullSync returns at once when a sync is in flight (part_005 171-175) *)
Refused(c) == c.pc = "sync" /\ ~c.ran

(* a continuation that runs before the host handles another event *)
Settled == \A k \in CheckIds : mgr.checks[k].pc # "cached" /\ ~Refused(mgr.checks[k])

(* syncTrigger has been called: fullSync takes the flag unless it is taken *)
Triggered(k) == isSyncing' = (isSyncing \/ mgr'.checks[k].pc = "sync")

CanSpawn == \E k \in CheckIds : mgr.checks[k].pc = "idle"

ManagerOp ==
    /\ Settled
    /\ CanSpawn
    /\ mgr.ops < MaxManagerOps

(* onload, main.ts 96-98: start() *)
Start ==
    /\ ManagerOp
    /\ mgr' = [StartManager(mgr) EXCEPT !.ops = @ + 1]
    /\ ManagerFrame
    /\ UNCHANGED isSyncing

(* a settings control changes: saveSettings, main.ts 203-208 *)
SaveSettings(on, hours) ==
    /\ ManagerOp
    /\ \E m \in {[mgr EXCEPT !.scheduledSync = on, !.hoursBefore = hours, !.ops = @ + 1]} :
          mgr' = IF on THEN StartManager(m) ELSE StopManager(m)
    /\ ManagerFrame
    /\ UNCHANGED isSyncing

(* an interval timer fires: checkAndSync; the timer repeats *)
TimerFires(t) ==
    /\ Settled
    /\ CanSpawn
    /\ t \in mgr.timers
    /\ t.due <= mgr.clock
    /\ \E m \in {[mgr EXCEPT !.timers = (@ \ {t}) \cup {[t EXCEPT !.due = @ + t.period]}]} :
          mgr' = BeginCheck(m, FreeCheck(m))
    /\ ManagerFrame
    /\ UNCHANGED isSyncing

(* getSchedule returned the cached schedule *)
CheckResumes(k) ==
    /\ mgr.checks[k].pc = "cached"
    /\ mgr' = Decide(mgr, k, mgr.checks[k].schedule, FALSE)
    /\ Triggered(k)
    /\ ManagerFrame

(* mutant: a failed fetch ends the polling *)
FetchDoneGivesUp(k, result) ==
    /\ Settled
    /\ mgr.checks[k].pc = "fetch"
    /\ mgr' = IF result.null
              THEN EndCheck(StopManager(Decided(mgr, NullSchedule, TRUE, FALSE)), k)
              ELSE Decide([mgr EXCEPT !.cachedSchedule = result,
                                      !.scheduleLastFetched = mgr.clock],
                          k, result, FALSE)
    /\ Triggered(k)
    /\ ManagerFrame

(* getDigestSchedule answers with a schedule, or fails (result null) *)
FetchDone(k, result) ==
    /\ Settled
    /\ mgr.checks[k].pc = "fetch"
    /\ mgr' = IF result.null
              THEN Decide(mgr, k, NullSchedule, TRUE)
              ELSE Decide([mgr EXCEPT !.cachedSchedule = result,
                                      !.scheduleLastFetched = mgr.clock],
                          k, result, FALSE)
    /\ Triggered(k)
    /\ ManagerFrame

(* syncTrigger returns, from a sync that ran or from the refusal of        *)
(* fullSync: lines 143-153                                                 *)
SyncDone(k) ==
    /\ Settled \/ Refused(mgr.checks[k])
    /\ mgr.checks[k].pc = "sync"
    /\ mgr' = EndCheck(SetTimer([mgr EXCEPT !.lastScheduledSync = mgr.clock],
                                GetCheckInterval(mgr.checks[k].minutes)), k)
    /\ isSyncing' = IF mgr.checks[k].ran THEN FALSE ELSE isSyncing
    /\ ManagerFrame

(* a sync started by a command or by the queue takes the flag (part_005    *)
(* 150-178) and gives it back in its finally                               *)
OtherSyncBegins ==
    /\ Settled
    /\ ~isSyncing
    /\ mgr' = [mgr EXCEPT !.manual = TRUE]
    /\ isSyncing' = TRUE
    /\ ManagerFrame

OtherSyncEnds ==
    /\ Settled
    /\ mgr.manual
    /\ mgr' = [mgr EXCEPT !.manual = FALSE]
    /\ isSyncing' = FALSE
    /\ ManagerFrame

ClockTick ==
    /\ Settled
    /\ mgr.clock < MaxClock
    /\ \A t \in mgr.timers : t.due > mgr.clock
    /\ mgr' = [mgr EXCEPT !.clock = @ + ClockStep]
    /\ ManagerFrame
    /\ UNCHANGED isSyncing

(***************************************************************************)
(* The tracker's store.  durable is the syncState last written by          *)
(* saveData; defaultHashes is the content of the one object                *)
(* DEFAULT_SYNC_STATE.noteHashes, and aliased says that the tracker's      *)
(* noteHashes is that very object, which is so after                       *)
(* "{ ...DEFAULT_SYNC_STATE }" in the constructor (nothing loaded) and in  *)
(* reset().  lastOp records the last call of the tracker machine below,    *)
(* the only machine that follows these four variables.                     *)
(***************************************************************************)
MaxTrackerOps == 3

NoOp ==
    [name |-> "none", n |-> 0, before |-> DEFAULT_SYNC_STATE,
     stored |-> DEFAULT_SYNC_STATE, called |-> FALSE,
     handed |-> DEFAULT_SYNC_STATE, ok |-> FALSE, threw |-> FALSE,
     path |-> 0, to |-> 0, hash |-> 0, hashes |-> <<>>, paths |-> {},
     time |-> 0, rules |-> NoRules, diff |-> [changed |-> {}, deleted |-> {}]]

StoreInit ==
    /\ durable = tracker
    /\ defaultHashes = DEFAULT_SYNC_STATE.noteHashes
    /\ aliased = (tracker = DEFAULT_SYNC_STATE)
    /\ lastOp = NoOp

(* the last call of shouldExclude or shouldExcludeNote and what it returned *)
NoCall == [name |-> "none", path |-> <<>>, tags |-> {}, result |-> FALSE]

FilterInit == filterCall = NoCall

(***************************************************************************)
(* The system.                                                             *)
(***************************************************************************)
InitVaults ==
    {[p \in HotPaths |-> [content |-> 1, tags |-> {}]],
     [p \in HotPaths |-> IF p = PathA THEN [content |-> 1, tags |-> {<<"d">>}] ELSE NoNote]}

(* The sync state loaded at startup: none saved, or one saved by an        *)
(* earlier session that uploaded p/b.md, a note removed from the vault     *)
(* while the plugin was not running.                                       *)
InitTracked == {<<>>, [p \in {PathB} |-> HashContent(1)]}

Init ==
    /\ vault \in InitVaults
    /\ \E h \in InitTracked :
          /\ (h # <<>>) => vault[PathB] = NoNote
          /\ tracker = [DEFAULT_SYNC_STATE EXCEPT !.noteHashes = h]
          /\ serverNotes = [p \in DOMAIN h |-> [hash |-> h[p], tags |-> {}]]
    /\ rules = DEFAULT_SYNC_STATE.serverExclusions
    /\ serverRules = NoRules
    /\ pendingChanges = <<>>
    /\ pendingDeletes = <<>>
    /\ debounceArmed = FALSE
    /\ isSyncing = FALSE
    /\ status = StatusIdle
    /\ run = [s \in Tasks |-> IdleRun]
    /\ saveExcl = [pc |-> "idle", rules |-> NoRules]
    /\ ops = 0
    /\ reconciled = FALSE
    /\ ClientInit
    /\ SchedInit
    /\ ManagerInit
    /\ StoreInit
    /\ FilterInit

VaultEvent ==
    \/ \E p \in HotPaths, note \in Notes : OnModify(p, note)
    \/ \E p \in HotPaths, note \in Notes : OnCreate(p, note)
    \/ \E p \in HotPaths : OnDelete(p)
    \/ \E p \in HotPaths, q \in RenameTargets : OnRename(p, q)

RunStep ==
    \/ \E s \in Tasks : ScanStep(s)
    \/ \E s \in Tasks, errors \in SUBSET ErrCandidates : UploadResponse(s, errors)
    \/ \E s \in Tasks : UploadFail(s)
    \/ \E s \in Tasks, ok \in BOOLEAN : SaveHashesDone(s, ok)
    \/ \E s \in Tasks : DeleteResponse(s)
    \/ \E s \in Tasks : DeleteFail(s)
    \/ \E s \in Tasks, ok \in BOOLEAN : SaveRemoveDone(s, ok)
    \/ \E s \in Tasks, ok \in BOOLEAN : SaveTimeDone(s, ok)

SaveExclusions ==
    \/ \E fi \in FolderInputs, ti \in TagInputs : SaveExclusionsClick(fi, ti)
    \/ SaveExclusionsResponse
    \/ SaveExclusionsFail
    \/ SaveExclusionsSaved

Next ==
    \/ VaultEvent
    \/ \E s \in FullTasks : FullSync(s)
    \/ ProcessPendingChanges
    \/ RunStep
    \/ SaveExclusions

Spec == Init /\ [][Next]_vars

FairSpec == Spec /\ WF_vars(RunStep)

(* the debounce timer, once armed, fires; awaited calls resolve or reject *)
DrainFairSpec == Spec /\ WF_vars(RunStep) /\ WF_vars(ProcessPendingChanges)

(***************************************************************************)
(* The API client alone, and the scheduler's timer alone.                  *)
(***************************************************************************)
Startup ==
    /\ Init
    /\ \A p \in HotPaths : vault[p] # NoNote
    /\ tracker = DEFAULT_SYNC_STATE

(* one call of request(), every outcome of every attempt *)
RequestNext ==
    \/ Request(1)
    \/ \E o \in Outcomes : Respond(1, o)
    \/ BackoffWake(1)
    \/ Tick

RequestSpec == Startup /\ [][RequestNext]_vars

(* Many calls of request(): they enter in the order of their numbers,      *)
(* only the first may fail, and a response arrives within the instant.     *)
LimiterOutcomes(c) ==
    {o \in Outcomes : o.json = NoBody /\ o.status \in (IF c = 1 THEN {200, 500} ELSE {200})}

InOrder(c) == IF c = 1 THEN TRUE ELSE callers[c - 1].pc # "idle"

ClientProgress ==
    \/ \E c \in Callers : LimiterWake(c)
    \/ \E c \in Callers : \E o \in LimiterOutcomes(c) : Respond(c, o)
    \/ \E c \in Callers : BackoffWake(c)
    \/ InFlight = {} /\ Tick

LimiterNext ==
    \/ \E c \in Callers : InOrder(c) /\ Request(c)
    \/ ClientProgress

LimiterSpec == Startup /\ [][LimiterNext]_vars

(* timers fire when due and awaited responses arrive *)
LimiterFairSpec == LimiterSpec /\ WF_vars(ClientProgress)

IntervalNext == \E schedule \in Schedules : ScheduleNextCheck(schedule)

IntervalSpec == Startup /\ [][IntervalNext]_vars

(***************************************************************************)
(* The scheduled-sync manager alone.                                       *)
(***************************************************************************)
ManagerNext ==
    \/ Start
    \/ \E on \in BOOLEAN, hours \in {1, 2} : SaveSettings(on, hours)
    \/ \E t \in mgr.timers : TimerFires(t)
    \/ \E k \in CheckIds : CheckResumes(k)
    \/ \E k \in CheckIds, result \in ServerSchedules \cup {NullSchedule} : FetchDone(k, result)
    \/ \E k \in CheckIds : SyncDone(k)
    \/ OtherSyncBegins
    \/ OtherSyncEnds
    \/ ClockTick

ManagerSpec == Startup /\ [][ManagerNext]_vars

(***************************************************************************)
(* Properties.                                                             *)
(***************************************************************************)
ActiveTasks == {s \in Tasks : run[s].pc # "idle"}

(* the upload loop of the task's run has ended without an abort *)
LoopDone(s) == run[s].pc \in {"delete", "saveRemove", "saveTime"}

(* C1: at most one sync run, full or incremental, is between its start and *)
(* its end, and the in-progress flag is set exactly while one is: so no    *)
(* run begins while the flag is set.                                       *)
C1_AtMostOneRun ==
    /\ Cardinality(ActiveTasks) <= 1
    /\ isSyncing <=> ActiveTasks # {}

(* a full sync is in flight and the debounce timer fired meanwhile: the    *)
(* drain was refused and left its paths pending                            *)
C1_Witness ==
    /\ \E s \in FullTasks : run[s].pc # "idle"
    /\ ~debounceArmed
    /\ pendingChanges # <<>>

(* C2: no note that the exclusion rules in force when an upload request is *)
(* issued exclude is part of that request.                                 *)
C2_NoExcludedNoteSent ==
    \A s \in Tasks : \A k \in 1..Len(run[s].sent) :
        \A j \in run[s].sent[k].lo .. run[s].sent[k].hi :
            ~ShouldExcludeNote(run[s].sent[k].rules, run[s].notes[j])

(* C3: the pending-changed and the pending-deleted set are disjoint.       *)
C3_PendingDisjoint == SeqToSet(pendingChanges) \cap SeqToSet(pendingDeletes) = {}

(* both sets hold a path: a rename, or a delete next to a change           *)
C3_Witness == pendingChanges # <<>> /\ pendingDeletes # <<>>

(* C4: every upload request holds at most BATCH_SIZE notes, and the        *)
(* requests of a run are consecutive slices of its note list, which names  *)
(* no path twice: the first starts at the first note, each next one right  *)
(* after the previous, and once the loop has ended the last slice ends at  *)
(* the last note.                                                          *)
C4_BatchesPartition ==
    \A s \in Tasks :
        LET r == run[s]
        IN  /\ Cardinality(NotePaths(r.notes)) = Len(r.notes)
            /\ \A k \in 1..Len(r.sent) :
                 /\ r.sent[k].lo <= r.sent[k].hi
                 /\ r.sent[k].hi - r.sent[k].lo + 1 <= BATCH_SIZE
                 /\ r.sent[k].hi <= Len(r.notes)
                 /\ r.sent[k].lo = IF k = 1 THEN 1 ELSE r.sent[k - 1].hi + 1
            /\ (LoopDone(s) /\ r.notes # <<>>) =>
                 /\ r.sent # <<>>
                 /\ r.sent[Len(r.sent)].hi = Len(r.notes)

(* a run whose notes went out in two requests *)
C4_Witness == \E s \in Tasks : LoopDone(s) /\ Len(run[s].sent) = 2

Tracked(t, p) == IF p \in DOMAIN t.noteHashes THEN t.noteHashes[p] ELSE 0

(* C6: in the step that handles an upload response, every note of the      *)
(* request without a per-item error gets its uploaded fingerprint in the   *)
(* tracker, every note with one keeps its entry (or stays untracked), and  *)
(* the run goes on to await the save; when the save returns, the run sends *)
(* the request for the next slice or, after the last, leaves the loop.     *)
C6_PerItemReconciliation ==
    [][\A s \in Tasks :
        LET r == run[s]
        IN  /\ (r.pc = "upload" /\ Len(run'[s].acked) = Len(r.acked) + 1) =>
                 /\ run'[s].pc = "saveHashes"
                 /\ \A j \in r.sent[Len(r.sent)].lo .. r.sent[Len(r.sent)].hi :
                      LET note == r.notes[j]
                      IN  IF note.path \in run'[s].acked[Len(r.acked) + 1]
                          THEN Tracked(tracker', note.path) = Tracked(tracker, note.path)
                          ELSE Tracked(tracker', note.path) = note.contentHash
            /\ (r.pc = "saveHashes" /\ run'[s].pc # "saveHashes"
                    /\ status' # StatusError("persist")) =>
                 IF r.sent[Len(r.sent)].hi < Len(r.notes)
                 THEN /\ run'[s].pc = "upload"
                      /\ Len(run'[s].sent) = Len(r.sent) + 1
                      /\ run'[s].sent[Len(r.sent) + 1].lo = r.sent[Len(r.sent)].hi + 1
                 ELSE LoopDone(s)'
      ]_vars

(* the first request of a run was answered with a per-item error and the   *)
(* run has sent its second request                                         *)
C6_Witness ==
    \E s \in Tasks :
        /\ Len(run[s].sent) = 2
        /\ run[s].acked # <<>>
        /\ run[s].acked[1] # {}

(* C7: every path -> fingerprint entry of the tracker is a note the server *)
(* holds with that fingerprint.                                            *)
C7_TrackedOnServer ==
    \A p \in DOMAIN tracker.noteHashes :
        /\ p \in DOMAIN serverNotes
        /\ serverNotes[p].hash = tracker.noteHashes[p]

(* C8: a task suspended on an upload or on a delete call either gets the   *)
(* answer or, when the call fails, ends its run in that step: no further   *)
(* request is issued, the status emitted is the error, and the pending     *)
(* sets are left as they are.                                              *)
C8_AbortOnNetworkFailure ==
    [][\A s \in Tasks :
        (run[s].pc \in {"upload", "delete"} /\ run'[s].pc # run[s].pc) =>
            \/ /\ run[s].pc = "upload"
               /\ run'[s].pc = "saveHashes"
               /\ Len(run'[s].acked) = Len(run[s].acked) + 1
               /\ run'[s].sent = run[s].sent
            \/ /\ run[s].pc = "delete"
               /\ run'[s].pc = "saveRemove"
               /\ run'[s].sent = run[s].sent
            \/ /\ run'[s] = IdleRun
               /\ status' = StatusError("network")
               /\ pendingChanges' = pendingChanges
               /\ pendingDeletes' = pendingDeletes
      ]_vars

(* a drain that had taken the deletion of a.md was ended by a failed       *)
(* network call: nothing is pending, and the tracker still has the path    *)
C8_Witness ==
    /\ status = StatusError("network")
    /\ ActiveTasks = {}
    /\ pendingChanges = <<>> /\ pendingDeletes = <<>>
    /\ ~debounceArmed
    /\ vault[PathA] = NoNote
    /\ PathA \in DOMAIN tracker.noteHashes

(* C9: whenever a run is in flight, a state with no run in flight follows  *)
(* (runs do not overlap, so this is the end of that run), and in the step  *)
(* that ends a run the flag is cleared and the status emitted last is idle *)
(* or error.                                                               *)
C9_RunEnds ==
    /\ (ActiveTasks # {}) ~> (ActiveTasks = {})
    /\ [][\A s \in Tasks :
            (run[s].pc # "idle" /\ run'[s].pc = "idle") =>
                /\ ~isSyncing'
                /\ status'.state \in {"idle", "error"}]_vars

(* a run has ended on a persistence failure *)
C9_Witness ==
    /\ status = StatusError("persist")
    /\ ActiveTasks = {}
    /\ ~isSyncing

(* the notes of the answered requests of a run that had no per-item error *)
AcceptedNotes(r) ==
    {r.notes[j] : j \in {j \in 1..Len(r.notes) :
        \E k \in 1..Len(r.acked) :
            /\ r.sent[k].lo <= j /\ j <= r.sent[k].hi
            /\ r.notes[j].path \notin r.acked[k]}}

(* C10: a run has at most one upload request unanswered, and only while it *)
(* awaits syncNotes; a request is sent only when the tracker update of     *)
(* every earlier one is done; and what the run has written to the tracker  *)
(* is exactly the fingerprints of the accepted notes of the answered       *)
(* requests.                                                               *)
C10_BatchesInSequence ==
    \A s \in Tasks :
        LET r == run[s]
        IN  /\ Len(r.sent) = Len(r.acked) + (IF r.pc = "upload" THEN 1 ELSE 0)
            /\ DOMAIN r.written = {n.path : n \in AcceptedNotes(r)}
            /\ \A n \in AcceptedNotes(r) : r.written[n.path] = n.contentHash
            /\ r.pc \in {"upload", "saveHashes"} =>
                 \A p \in DOMAIN r.written : Tracked(tracker, p) = r.written[p]

(* the second request is in flight; the first was answered with an error   *)
(* for one note and its other notes are written                            *)
C10_Witness ==
    \E s \in Tasks :
        /\ run[s].pc = "upload"
        /\ Len(run[s].sent) = 2
        /\ run[s].acked[1] # {}
        /\ run[s].written # <<>>

(* C11: whenever a path is pending, a drain follows that takes the pending *)
(* sets (both are empty after it).                                         *)
C11_DrainFollows ==
    (pendingChanges # <<>> \/ pendingDeletes # <<>>)
        ~> (pendingChanges = <<>> /\ pendingDeletes = <<>>)

(* C12: a rename of a tracked note A to a path B queues the deletion of A  *)
(* and schedules the drain that issues it; B is queued for upload exactly  *)
(* when it is a note the exclusion rules do not exclude.                   *)
C12_RenameRemovesOld ==
    [][\A a \in HotPaths, b \in RenameTargets :
        (OnRename(a, b) /\ a \in DOMAIN tracker.noteHashes) =>
            /\ a \in SeqToSet(pendingDeletes')
            /\ debounceArmed'
            /\ b \in SeqToSet(pendingChanges') <=>
                 /\ IsMarkdown(b)
                 /\ ~ShouldExclude(rules, PathStr(b), ExtractTags(vault[a].tags))
      ]_vars

(* the notes of the vault that the rules in force do not exclude *)
SyncableNotes ==
    {p \in FillerPaths \cup {q \in HotPaths : vault[q] # NoNote} :
        ~ShouldExclude(rules, PathStr(p), ExtractTags(FileAt(p).tags))}

(* a full sync ends with status idle, no response of it listed a per-item  *)
(* error, and neither the vault nor the rules changed while it ran         *)
FullSyncSucceeds(s) ==
    /\ s \in FullTasks
    /\ run[s].pc = "saveTime"
    /\ run'[s].pc = "idle"
    /\ status' = StatusIdle
    /\ CleanFullRun(run[s])

HasChangedTrackedOnly(t, path, newHash) ==
    path \in DOMAIN t.noteHashes /\ t.noteHashes[path] # newHash

HasChanged(t, path, newHash) == Tracked(t, path) # newHash

CalculateDiff(t, currentHashes) ==
    [changed |-> {p \in DOMAIN currentHashes : HasChanged(t, p, currentHashes[p])},
     deleted |-> {p \in DOMAIN t.noteHashes : p \notin DOMAIN currentHashes}]

(* the fingerprints of the notes a full sync would upload now *)
CurrentHashes == [p \in SyncableNotes |-> HashContent(FileAt(p).content)]

(* C14: once a full sync has completed and as long as no note and no rule  *)
(* has changed and no read of a note has failed since, in particular all   *)
(* through a second full sync, the diff of the current fingerprints        *)
(* against the tracker has no changed and no deleted path.                 *)
C14_SecondSyncDiffEmpty ==
    reconciled => CalculateDiff(tracker, CurrentHashes) = [changed |-> {}, deleted |-> {}]

(* a second full sync, started after one that completed, has had its       *)
(* first upload answered                                                   *)
C14_Witness ==
    /\ reconciled
    /\ \E s \in FullTasks : run[s].pc = "saveHashes" /\ Len(run[s].acked) = 1

(***************************************************************************)
(* C15: a request whose attempts all fail with a retryable failure (a      *)
(* rejection of requestUrl, a 5xx status or 429) makes exactly             *)
(* retries + 1 = 4 attempts and then ends with the error of the last       *)
(* attempt; an attempt answered 2xx ends the request with that response    *)
(* and is its last attempt.                                                *)
(***************************************************************************)
Retryable(st) == st = 0 \/ st >= 500 \/ st = 429

Success(st) == st >= 200 /\ st < 300

AllRetryable(log) == \A k \in 1..Len(log) : Retryable(log[k].status)

C15_RetryBound ==
    \A c \in Callers :
       LET cl == callers[c]
           n == Len(cl.log)
       IN  /\ AllRetryable(cl.log) =>
                /\ n <= retries + 1
                /\ (cl.pc = "done") <=> (n = retries + 1)
                /\ cl.pc = "done" =>
                      /\ cl.result.kind = "error"
                      /\ cl.result.error = cl.lastError
                      /\ cl.result.error.status = cl.log[n].status
                      /\ cl.result.error.name = IF cl.log[n].kind = "reject" THEN "Error" ELSE "ApiRequestError"
           /\ \A k \in 1..n : Success(cl.log[k].status) =>
                                   k = n /\ cl.pc = "done" /\ cl.result.kind = "json"

C15_Witness ==
    \E c \in Callers : /\ callers[c].pc = "done"
                     /\ [k \in 1..Len(callers[c].log) |-> callers[c].log[k].status]
                           = <<0, 500, 429, 500>>

(***************************************************************************)
(* C16: an attempt answered with a 4xx status other than 429 is the last   *)
(* attempt of its request: the request ends at once with the               *)
(* ApiRequestError carrying that status and the code and details of the    *)
(* body, and no backoff sleep follows; answered so on its first attempt,   *)
(* the request has made exactly one attempt and has never slept.           *)
(***************************************************************************)
ClientError(st) == st >= 400 /\ st < 500 /\ st # 429

Backoff(k) == Min(1000 * 2^(k - 1), 30000)

WaitsAsClaimed(cl) ==
    /\ \A k \in 1..Len(cl.waits) : cl.waits[k] = Backoff(k)
    /\ Len(cl.waits) <= 3
    /\ cl.pc = "call" => Len(cl.waits) = Len(cl.log)
    /\ cl.pc = "backoff" => Len(cl.waits) = Len(cl.log)
    /\ Len(cl.log) = 4 => cl.pc = "done" /\ cl.waits = <<1000, 2000, 4000>>

SleepAsClaimed(c) ==
    /\ (callers[c].pc = "call" /\ callers'[c].pc = "backoff") =>
          callers'[c].wake = now + Backoff(Len(callers'[c].waits))
    /\ (callers[c].pc = "backoff" /\ callers'[c].pc # "backoff") =>
          now = callers[c].wake /\ callers'[c].pc = "call"

C17_BackoffWaits ==
    /\ [](\A c \in Callers : WaitsAsClaimed(callers[c]))
    /\ [][\A c \in Callers : SleepAsClaimed(c)]_vars

C17_Witness ==
    \E c \in Callers :
       /\ callers[c].pc = "done"
       /\ callers[c].result.kind = "error"
       /\ Len(callers[c].log) = 4
       /\ callers[c].waits = <<1000, 2000, 4000>>

(***************************************************************************)
(* C18: at every instant, the calls of requestUrl made during the last     *)
(* windowMs = 1000 ms, first attempts and retries of all requests          *)
(* together, number at most maxRequests = 10.                              *)
(***************************************************************************)
C18_QuotaPerWindow == Len(Prune(httpCalls, now)) <= maxRequests

(* the limiter's own count, which leaves the retries out, keeps its bound *)
AcquiredPerWindow == Len(Prune(timestamps, now)) <= maxRequests

(***************************************************************************)
(* C19: acquire() makes a caller wait only when maxRequests = 10           *)
(* acquisitions lie inside the window, and then until the oldest of them   *)
(* leaves it, a time still to come; it lets every other caller through at  *)
(* once; a waiting caller tries again when that time has come and not      *)
(* before; and every caller made to wait gets through in the end: none is  *)
(* turned away and none waits forever.                                     *)
(***************************************************************************)
InWindow == Prune(timestamps, now)

Entered(c) == callers[c].pc \in {"idle", "limited"} /\ callers'[c] # callers[c]

AcquireAsClaimed(c) ==
    Entered(c) =>
       /\ callers[c].pc = "limited" => now = callers[c].wake
       /\ IF Len(InWindow) >= maxRequests
          THEN /\ callers'[c].pc = "limited"
               /\ callers'[c].wake = InWindow[1] + windowMs
               /\ callers'[c].wake > now
               /\ timestamps' = InWindow
          ELSE /\ callers'[c].pc = "call"
               /\ timestamps' = Append(InWindow, now)

GetsThrough(c) == callers[c].pc \notin {"idle", "limited"}

(* a caller leaves its wait only by getting through, so the callers that   *)
(* wait at some time have all got through once none waits                  *)
Limited == {c \in Callers : callers[c].pc = "limited"}

C19_LimiterDelaysOnly ==
    /\ [][\A c \in Callers : AcquireAsClaimed(c)]_vars
    /\ (Limited # {}) ~> (Limited = {})

C19_Witness ==
    \E c \in Callers :
       /\ callers[c].suspended > 0
       /\ GetsThrough(c)
       /\ Len(InWindow) <= maxRequests

(***************************************************************************)
(* C20: after a check the timer is set by the hours h left until the       *)
(* digest: 60 minutes for h > 12, 30 for 6 < h <= 12, 15 for 2 < h <= 6    *)
(* and 10 for h <= 2 (so 10 minutes with the digest 90 minutes away);      *)
(* 60 minutes when the schedule is unknown or disabled.                    *)
(***************************************************************************)
ClaimedInterval(minutesUntilDigest) ==
    IF minutesUntilDigest > 12 * 60 THEN 60 * MsPerMinute
    ELSE IF minutesUntilDigest > 6 * 60 THEN 30 * MsPerMinute
    ELSE IF minutesUntilDigest > 2 * 60 THEN 15 * MsPerMinute
    ELSE 10 * MsPerMinute

C20_IntervalTiers ==
    sched.checked =>
       sched.interval = IF sched.schedule.known
                        THEN ClaimedInterval(sched.schedule.minutes)
                        ELSE 60 * MsPerMinute

(* what the code gives: one hour, whatever the schedule *)
AlwaysHourly == sched.checked => sched.interval = DEFAULT_CHECK_INTERVAL

(***************************************************************************)
(* C21: a check that has its schedule in hand calls syncTrigger if and     *)
(* only if the schedule is there and enabled, has a next digest, the time  *)
(* left is more than 0 and at most the configured hours, and no scheduled  *)
(* sync was stamped less than 30 minutes before; and syncTrigger is called *)
(* by nothing but such a check.                                            *)
(***************************************************************************)
DueForSync(d) ==
    /\ ~d.schedule.null
    /\ d.schedule.is_enabled
    /\ d.schedule.next_digest_utc # -1
    /\ d.schedule.next_digest_utc - d.clock > 0
    /\ d.schedule.next_digest_utc - d.clock <= 60 * d.window
    /\ ~(d.stamp # -1 /\ d.clock - d.stamp < 30)

C21_SyncIffDue ==
    /\ [](mgr.decision.made => (mgr.decision.invoked <=> DueForSync(mgr.decision)))
    /\ [][/\ mgr'.calls # mgr.calls =>
               /\ mgr'.calls = Append(mgr.calls, mgr.clock)
               /\ mgr'.decision.invoked
               /\ mgr'.decision.clock = mgr.clock
               /\ mgr'.decision.stamp = mgr.lastScheduledSync
               /\ mgr'.decision.window = mgr.hoursBefore
          /\ (mgr'.decision # mgr.decision /\ mgr'.decision.invoked) =>
               mgr'.calls = Append(mgr.calls, mgr.clock)
         ]_vars

C21_Witness ==
    /\ mgr.decision.made
    /\ mgr.decision.invoked
    /\ mgr.decision.stamp # -1
    /\ Len(mgr.calls) = 2

(***************************************************************************)
(* C22: any two calls of syncTrigger by the manager are at least 30        *)
(* minutes apart.                                                          *)
(***************************************************************************)
C22_CallsApart ==
    \A i, j \in 1..Len(mgr.calls) :
        i < j => (mgr.calls[j] - mgr.calls[i]) * MsPerMinute >= MIN_SYNC_INTERVAL

(***************************************************************************)
(* C23: the check whose schedule fetch fails calls no sync and sets the    *)
(* timer, the only one, to fire after the default 60 minutes; it leaves    *)
(* the cached schedule, its fetch time, the stamp of the last scheduled    *)
(* sync and the settings as they were, so that a later check finds what it *)
(* would have found without the failure.                                   *)
(***************************************************************************)
FetchFails(k) ==
    /\ mgr.checks[k].pc = "fetch"
    /\ mgr'.checks[k].pc # "fetch"
    /\ mgr'.decision.fetchFailed

C23_FailureKeepsPolling ==
    [][\A k \in CheckIds :
         FetchFails(k) =>
            /\ mgr'.calls = mgr.calls
            /\ mgr'.checks[k] = IdleCheck
            /\ mgr'.checkInterval # 0
            /\ mgr'.timers = {[id |-> mgr'.checkInterval, period |-> 60, due |-> mgr.clock + 60]}
            /\ mgr'.cachedSchedule = mgr.cachedSchedule
            /\ mgr'.scheduleLastFetched = mgr.scheduleLastFetched
            /\ mgr'.lastScheduledSync = mgr.lastScheduledSync
            /\ mgr'.scheduledSync = mgr.scheduledSync
            /\ mgr'.hoursBefore = mgr.hoursBefore
      ]_vars

(* a fetch failed at some check, and the check after it, started by the    *)
(* timer that one set, fetched a schedule and called the sync              *)
C23_Witness ==
    /\ mgr.decision.made
    /\ ~mgr.decision.fetchFailed
    /\ mgr.decision.invoked
    /\ mgr.failures = 1
    /\ mgr.ops = 1
    /\ mgr.scheduleLastFetched = mgr.decision.clock
    /\ mgr.calls = <<60>>

(***************************************************************************)
(* C24: the host never runs more than one timer of the manager, and the    *)
(* one it runs is the one whose handle the manager holds; start() on a     *)
(* stopped manager begins one check and sets one timer; start() on a       *)
(* running manager begins no check and leaves the timer alone; and when    *)
(* the manager takes a new handle the timer of the old one is gone.        *)
(***************************************************************************)
ActiveChecks(m) == {k \in CheckIds : m.checks[k].pc # "idle"}

StartCalled == mgr'.ops = mgr.ops + 1 /\ mgr'.scheduledSync

C24_OneTimer ==
    /\ [](/\ Cardinality(mgr.timers) <= 1
          /\ \A t \in mgr.timers : t.id = mgr.checkInterval)
    /\ [][/\ (StartCalled /\ mgr.checkInterval # 0) =>
               /\ mgr'.timers = mgr.timers
               /\ mgr'.checkInterval = mgr.checkInterval
               /\ mgr'.checks = mgr.checks
          /\ (StartCalled /\ mgr.checkInterval = 0) =>
               /\ Cardinality(ActiveChecks(mgr')) = Cardinality(ActiveChecks(mgr)) + 1
               /\ Cardinality(mgr'.timers) = 1
               /\ mgr'.checkInterval # 0
          /\ (mgr'.checkInterval # mgr.checkInterval /\ mgr'.checkInterval # 0) =>
               /\ \A t \in mgr'.timers : t.id # mgr.checkInterval
               /\ \E t \in mgr'.timers : t.id = mgr'.checkInterval /\ t.due = mgr.clock + t.period
         ]_vars

(* start() was called twice, the second time on the running manager, and   *)
(* a check has since replaced the timer start() had set                    *)
C24_Witness ==
    /\ mgr.ops = 2
    /\ mgr.scheduledSync
    /\ mgr.hoursBefore = 1
    /\ mgr.decision.made
    /\ mgr.checkInterval = 2
    /\ Cardinality(mgr.timers) = 1
    /\ mgr.clock = 0

(***************************************************************************)
(* The tracker alone: its operations called one after the other, each      *)
(* from its call to its return, on a tracker built with nothing loaded.    *)
(* saveData either writes the state it is handed or rejects.               *)
(***************************************************************************)
TrackerPaths == {1} \cup HotPaths
TrackerHashes == {HashContent(c) : c \in Contents}
TrackerRules == {NoRules, [folders |-> {<<"p", "/">>}, tags |-> {}]}
Snapshots == UNION {[ps -> TrackerHashes] : ps \in SUBSET TrackerPaths}

(* mutant: a write that reports success and stores nothing *)
SaveLags(state, stored, ok) ==
    [handed |-> state, stored |-> stored, threw |-> ~ok]

(* mutant: a rejected write is swallowed *)
SaveSwallows(state, stored, ok) ==
    [handed |-> state, stored |-> IF ok THEN state ELSE stored, threw |-> FALSE]

(* save(): the callback gets this.state, saveData stores it or rejects,    *)
(* and the rejection is that of the operation                              *)
Save(state, stored, ok) ==
    [handed |-> state, stored |-> IF ok THEN state ELSE stored, threw |-> ~ok]

UpdateHash(t, path, hash) ==
    [t EXCEPT !.noteHashes = [p \in {path} |-> hash] @@ t.noteHashes]

RemoveHash(t, path) == RemoveHashes(t, {path})

(* noteHashes[newPath] = noteHashes[oldPath]; delete noteHashes[oldPath] *)
RenamePath(t, oldPath, newPath) ==
    IF oldPath \in DOMAIN t.noteHashes
    THEN RemoveHashes(UpdateHash(t, newPath, t.noteHashes[oldPath]), {oldPath})
    ELSE t

(* { ...DEFAULT_SYNC_STATE }: a new state object whose noteHashes is the   *)
(* object of DEFAULT_SYNC_STATE, with whatever it holds by now             *)
Reset(shared) == [DEFAULT_SYNC_STATE EXCEPT !.noteHashes = shared]

TrackerFrame == UNCHANGED <<vault, rules, serverNotes, serverRules, pendingChanges,
                            pendingDeletes, debounceArmed, isSyncing, status, run,
                            saveExcl, ops, reconciled, clientVars, schedVars, filterVars>>

(* A call that returns with state t2 in memory.  kind is what the call     *)
(* did to the noteHashes object: "inplace" wrote into it, "fresh" put a    *)
(* new object in its place, "shared" put the object of DEFAULT_SYNC_STATE  *)
(* in its place, "none" left it alone.                                     *)
Returns(name, t2, kind, saves, ok, args) ==
    LET s == Save(t2, durable, ok)
    IN  /\ lastOp.n < MaxTrackerOps
        /\ tracker' = t2
        /\ aliased' = IF kind = "fresh" THEN FALSE
                      ELSE IF kind = "shared" THEN TRUE ELSE aliased
        /\ defaultHashes' = IF kind = "inplace" /\ aliased
                            THEN t2.noteHashes ELSE defaultHashes
        /\ durable' = IF saves THEN s.stored ELSE durable
        /\ lastOp' = args @@ [name |-> name, n |-> lastOp.n + 1, before |-> tracker,
                              stored |-> durable, called |-> saves,
                              handed |-> IF saves THEN s.handed ELSE NoOp.handed,
                              ok |-> saves /\ ok,
                              threw |-> saves /\ s.threw] @@ NoOp
        /\ TrackerFrame

CallUpdateHash(path, hash, ok) ==
    Returns("updateHash", UpdateHash(tracker, path, hash), "inplace", TRUE, ok,
            [path |-> path, hash |-> hash])

CallUpdateHashes(hashes, ok) ==
    Returns("updateHashes", UpdateHashes(tracker, hashes), "fresh", TRUE, ok,
            [hashes |-> hashes])

CallRemoveHash(path, ok) ==
    Returns("removeHash", RemoveHash(tracker, path), "inplace", TRUE, ok,
            [path |-> path])

CallRemoveHashes(paths, ok) ==
    Returns("removeHashes", RemoveHashes(tracker, paths), "inplace", TRUE, ok,
            [paths |-> paths])

CallRenamePath(oldPath, newPath, ok) ==
    Returns("renamePath", RenamePath(tracker, oldPath, newPath), "inplace",
            oldPath \in DOMAIN tracker.noteHashes, ok,
            [path |-> oldPath, to |-> newPath])

CallUpdateLastSyncTime(ok) ==
    Returns("updateLastSyncTime", UpdateLastSyncTime(tracker, lastOp.n + 1), "none",
            TRUE, ok, [time |-> lastOp.n + 1])

CallUpdateExclusions(r, ok) ==
    Returns("updateExclusions", UpdateExclusions(tracker, r), "none", TRUE, ok,
            [rules |-> r])

CallReset(ok) ==
    Returns("reset", Reset(defaultHashes), "shared", TRUE, ok, <<>>)

CallCalculateDiff(currentHashes) ==
    Returns("calculateDiff", tracker, "none", FALSE, TRUE,
            [hashes |-> currentHashes, diff |-> CalculateDiff(tracker, currentHashes)])

TrackerNext ==
    \/ \E p \in TrackerPaths, h \in TrackerHashes, ok \in BOOLEAN : CallUpdateHash(p, h, ok)
    \/ \E hs \in Snapshots, ok \in BOOLEAN : CallUpdateHashes(hs, ok)
    \/ \E p \in TrackerPaths, ok \in BOOLEAN : CallRemoveHash(p, ok)
    \/ \E ps \in SUBSET TrackerPaths, ok \in BOOLEAN : CallRemoveHashes(ps, ok)
    \/ \E p \in TrackerPaths, q \in TrackerPaths, ok \in BOOLEAN : CallRenamePath(p, q, ok)
    \/ \E ok \in BOOLEAN : CallUpdateLastSyncTime(ok)
    \/ \E r \in TrackerRules, ok \in BOOLEAN : CallUpdateExclusions(r, ok)
    \/ \E ok \in BOOLEAN : CallReset(ok)
    \/ \E hs \in Snapshots : CallCalculateDiff(hs)

TrackerSpec == Startup /\ [][TrackerNext]_vars

(***************************************************************************)
(* C25: whatever the tracker holds and whatever snapshot it is given,      *)
(* calculateDiff returns as changed exactly the snapshot's paths whose     *)
(* fingerprint the record lacks or has different, and as deleted exactly   *)
(* the recorded paths the snapshot lacks; no path is in both, and the      *)
(* tracker's state, in memory and stored, is what it was before the call.  *)
(***************************************************************************)
C25_DiffExact ==
    lastOp.name = "calculateDiff" =>
        LET record == lastOp.before.noteHashes
            snapshot == lastOp.hashes
        IN  /\ lastOp.diff.changed =
                  {p \in DOMAIN snapshot :
                      p \notin DOMAIN record \/ record[p] # snapshot[p]}
            /\ lastOp.diff.deleted = (DOMAIN record) \ (DOMAIN snapshot)
            /\ lastOp.diff.changed \cap lastOp.diff.deleted = {}
            /\ tracker = lastOp.before
            /\ ~lastOp.called

(* a diff with a path the record lacks, a path whose fingerprint differs   *)
(* and a recorded path the snapshot lacks                                  *)
C25_Witness ==
    /\ lastOp.name = "calculateDiff"
    /\ lastOp.diff.changed = {1, PathA}
    /\ lastOp.diff.deleted = {PathB}
    /\ DOMAIN tracker.noteHashes = HotPaths

(***************************************************************************)
(* C26: when a mutating operation of the tracker has returned (renamePath  *)
(* counted only for a tracked path), the persistence callback has been     *)
(* called with the state the tracker now holds, the whole of it, and if    *)
(* the write succeeded the stored copy is that state and the operation     *)
(* did not reject.                                                         *)
(***************************************************************************)
MutatingOps == {"updateHash", "updateHashes", "removeHash", "removeHashes",
                "renamePath", "updateLastSyncTime", "updateExclusions", "reset"}

Mutated ==
    /\ lastOp.name \in MutatingOps
    /\ lastOp.name = "renamePath" => lastOp.path \in DOMAIN lastOp.before.noteHashes

C26_SavedBeforeReturn ==
    Mutated =>
        /\ lastOp.called
        /\ lastOp.handed = tracker
        /\ lastOp.ok => (durable = tracker /\ ~lastOp.threw)

(* a successful rename of a tracked path, after which the stored copy      *)
(* holds the new path and a last-sync time                                 *)
C26_Witness ==
    /\ lastOp.name = "renamePath"
    /\ lastOp.ok
    /\ lastOp.path = PathA
    /\ lastOp.to = PathB
    /\ DOMAIN durable.noteHashes = {PathB}
    /\ durable.lastSyncTime # 0
    /\ durable # lastOp.before

(***************************************************************************)
(* C27: when the write fails during a mutating operation, the operation    *)
(* rejects and the tracker holds the mutation all the same, while the      *)
(* stored copy is the one from before the call; and the next mutating      *)
(* operation whose write succeeds leaves the stored copy equal to the      *)
(* state in memory, the earlier mutation included.                         *)
(***************************************************************************)
FailedWrite == Mutated /\ lastOp.called /\ ~lastOp.ok

(* what the operation was called to do, read off the state in memory *)
MutationHeld ==
    LET before == lastOp.before.noteHashes
        after == tracker.noteHashes
    IN  CASE lastOp.name = "updateHash" ->
                 /\ lastOp.path \in DOMAIN after
                 /\ after[lastOp.path] = lastOp.hash
          [] lastOp.name = "updateHashes" ->
                 \A p \in DOMAIN lastOp.hashes :
                     p \in DOMAIN after /\ after[p] = lastOp.hashes[p]
          [] lastOp.name = "removeHash" -> lastOp.path \notin DOMAIN after
          [] lastOp.name = "removeHashes" -> lastOp.paths \cap DOMAIN after = {}
          [] lastOp.name = "renamePath" ->
                 lastOp.to # lastOp.path =>
                     /\ lastOp.to \in DOMAIN after
                     /\ after[lastOp.to] = before[lastOp.path]
                     /\ lastOp.path \notin DOMAIN after
          [] lastOp.name = "updateLastSyncTime" -> tracker.lastSyncTime = lastOp.time
          [] lastOp.name = "updateExclusions" -> tracker.serverExclusions = lastOp.rules
          [] lastOp.name = "reset" ->
                 /\ tracker.lastSyncTime = DEFAULT_SYNC_STATE.lastSyncTime
                 /\ tracker.serverExclusions = DEFAULT_SYNC_STATE.serverExclusions

C27_FailedWriteKeepsMutation ==
    /\ [](FailedWrite => (lastOp.threw /\ MutationHeld /\ durable = lastOp.stored))
    /\ [][(FailedWrite /\ lastOp'.n = lastOp.n + 1 /\ lastOp'.called /\ lastOp'.ok)
            => (durable' = tracker' /\ ~lastOp'.threw)]_vars

(* the write of updateHash failed, memory was ahead of the stored copy,    *)
(* and the write of the next operation stored both mutations               *)
C27_Witness ==
    /\ lastOp.name = "updateLastSyncTime"
    /\ lastOp.ok
    /\ lastOp.n = 2
    /\ DOMAIN lastOp.before.noteHashes = {PathA}
    /\ lastOp.stored = DEFAULT_SYNC_STATE
    /\ DOMAIN durable.noteHashes = {PathA}
    /\ durable.lastSyncTime = 2

(***************************************************************************)
(* C28: when reset() has returned, whatever calls came before it, the      *)
(* tracker holds a fingerprint for no path and its last-sync time is the   *)
(* null of DEFAULT_SYNC_STATE.                                             *)
(***************************************************************************)
C28_ResetEmpties ==
    lastOp.name = "reset" =>
        /\ tracker.noteHashes = <<>>
        /\ tracker.lastSyncTime = DEFAULT_SYNC_STATE.lastSyncTime

(***************************************************************************)
(* C29: when renamePath(oldPath, newPath) has returned, then if oldPath    *)
(* was tracked the fingerprint recorded for newPath is the one that was    *)
(* recorded for oldPath and the entry of every path other than the two is  *)
(* as it was, and if oldPath was not tracked the state is as it was.       *)
(***************************************************************************)
C29_RenameKeepsFingerprint ==
    lastOp.name = "renamePath" =>
        IF lastOp.path \in DOMAIN lastOp.before.noteHashes
        THEN /\ Tracked(tracker, lastOp.to) = lastOp.before.noteHashes[lastOp.path]
             /\ \A p \in TrackerPaths \ {lastOp.path, lastOp.to} :
                    Tracked(tracker, p) = Tracked(lastOp.before, p)
             /\ tracker.lastSyncTime = lastOp.before.lastSyncTime
             /\ tracker.serverExclusions = lastOp.before.serverExclusions
        ELSE tracker = lastOp.before /\ durable = lastOp.stored

(***************************************************************************)
(* The exclusion checker alone: updateRules with any rule set, then        *)
(* shouldExclude of a file and its tags, or shouldExcludeNote of a note.   *)
(***************************************************************************)
FilterPaths == {PathStr(PathA), PathStr(PathB), <<"p", "q", "/", "b">> \o DotMd, <<"p">>}
FilterNotePaths == {1, PathA, PathB}
FilterTags == {<<"d">>, <<"#", "d">>, <<"e">>}
FilterRules == [folders : SUBSET {<<"p">>, <<"p", "/">>, <<"a">>},
                tags : SUBSET {<<"d">>, <<"#", "d">>}]

FilterFrame == UNCHANGED <<vault, tracker, serverNotes, serverRules, pendingChanges,
                           pendingDeletes, debounceArmed, isSyncing, status, run,
                           saveExcl, ops, reconciled, clientVars, schedVars, storeVars>>

CallShouldExclude(r, path, tags) ==
    /\ rules' = r
    /\ filterCall' = [name |-> "shouldExclude", path |-> path, tags |-> tags,
                      result |-> ShouldExclude(r, path, tags)]
    /\ FilterFrame

CallShouldExcludeNote(r, note) ==
    /\ rules' = r
    /\ filterCall' = [name |-> "shouldExcludeNote", path |-> PathStr(note.path),
                      tags |-> note.tags, result |-> ShouldExcludeNote(r, note)]
    /\ FilterFrame

FilterNext ==
    \/ \E r \in FilterRules, path \in FilterPaths, tags \in SUBSET FilterTags :
           CallShouldExclude(r, path, tags)
    \/ \E r \in FilterRules, p \in FilterNotePaths, tags \in SUBSET FilterTags :
           CallShouldExcludeNote(r, [path |-> p, tags |-> tags])

FilterSpec == Startup /\ [][FilterNext]_vars

(***************************************************************************)
(* C30: for every path, tag set and rule set, shouldExclude and            *)
(* shouldExcludeNote answer true exactly when the path begins with some    *)
(* folder rule taken with a trailing separator, or some tag, with or       *)
(* without its leading "#", is among the tag rules; so a folder match      *)
(* excludes whatever the tags are and a tag match whatever the path is.    *)
(***************************************************************************)
WithSeparator(folder) ==
    IF folder # <<>> /\ folder[Len(folder)] = "/" THEN folder ELSE Append(folder, "/")

BeginsWith(path, prefix) ==
    Len(prefix) <= Len(path) /\ SubSeq(path, 1, Len(prefix)) = prefix

FolderRuleMatches ==
    \E folder \in rules.folders : BeginsWith(filterCall.path, WithSeparator(folder))

TagRuleMatches ==
    \E tag \in filterCall.tags, rule \in rules.tags :
        LET bare == IF tag # <<>> /\ tag[1] = "#" THEN Tail(tag) ELSE tag
        IN  rule = bare \/ rule = <<"#">> \o bare

C30_UnionOfRules ==
    filterCall.name # "none" =>
        /\ filterCall.result <=> (FolderRuleMatches \/ TagRuleMatches)
        /\ FolderRuleMatches => filterCall.result
        /\ TagRuleMatches => filterCall.result

(* a file under no excluded folder, excluded for its tag alone, the tag    *)
(* written without "#" and the rule with it                                *)
C30_Witness ==
    /\ filterCall.name = "shouldExclude"
    /\ filterCall.result
    /\ filterCall.path = PathStr(PathA)
    /\ filterCall.tags = {<<"d">>}
    /\ rules = [folders |-> {<<"p">>}, tags |-> {<<"#", "d">>}]
    /\ ~FolderRuleMatches
    /\ TagRuleMatches

(***************************************************************************)
(* matchesPath and matchesTags alone, each called with one rule: a folder  *)
(* rule as the server delivered it or as parseFolderExclusions made it     *)
(* from a line typed in the settings, and a tag rule as written.           *)
(***************************************************************************)
FolderLines ==
    {<<"p">>, <<"p", "/">>, <<"p", "/", "/">>, <<"/", "p">>, <<"p", "q">>, <<"a">>,
     <<"b">>, <<"p", "r", "i", "v">>, <<"p", "r", "i", "v", "/">>}

MatchPaths ==
    {PathStr(PathA), PathStr(PathB), <<"p">>,
     <<"p", "q", "/", "b">> \o DotMd,
     <<"p", "/", "/", "b">> \o DotMd,
     <<"/", "p", "/", "b">> \o DotMd,
     <<"b", "/", "p", "/", "b">> \o DotMd,
     <<"p", "r", "i", "v", "/", "x">> \o DotMd,
     <<"p", "r", "i", "v", "a", "t", "e", "/", "x">> \o DotMd}

TagNames == {<<"d">>, <<"e">>, <<"d", "e">>, <<"D">>, <<>>}
WrittenTags == TagNames \cup {<<"#">> \o t : t \in TagNames}

CallMatchesPath(folder, path) ==
    /\ rules' = [folders |-> {folder}, tags |-> {}]
    /\ filterCall' = [name |-> "matchesPath", path |-> path, tags |-> {},
                      result |-> MatchesPath(rules', path)]
    /\ FilterFrame

CallMatchesTags(rule, tag) ==
    /\ rules' = [folders |-> {}, tags |-> {rule}]
    /\ filterCall' = [name |-> "matchesTags", path |-> <<>>, tags |-> {tag},
                      result |-> MatchesTags(rules', {tag})]
    /\ FilterFrame

MatchNext ==
    \/ \E l \in FolderLines, typed \in BOOLEAN, path \in MatchPaths :
           \E folder \in (IF typed THEN ParseFolderExclusions({l}) ELSE {l}) :
               CallMatchesPath(folder, path)
    \/ \E rule \in WrittenTags, tag \in WrittenTags : CallMatchesTags(rule, tag)

MatchSpec == Startup /\ [][MatchNext]_vars

(***************************************************************************)
(* C31: matchesPath answers true exactly when the path begins with the     *)
(* folder rule brought to end with exactly one separator; so the rule      *)
(* matches at a folder boundary only, and the answer is the same for the   *)
(* rule written with its trailing separator and without it.                *)
(***************************************************************************)
RECURSIVE WithoutSeparators(_)
WithoutSeparators(folder) ==
    IF folder # <<>> /\ folder[Len(folder)] = "/"
    THEN WithoutSeparators(SubSeq(folder, 1, Len(folder) - 1))
    ELSE folder

OneSeparator(folder) == Append(WithoutSeparators(folder), "/")

C31_FolderBoundary ==
    filterCall.name = "matchesPath" =>
        \A folder \in rules.folders :
            /\ filterCall.result <=> BeginsWith(filterCall.path, OneSeparator(folder))
            /\ filterCall.result =
                   MatchesPath([rules EXCEPT !.folders = {WithoutSeparators(folder)}],
                               filterCall.path)

(***************************************************************************)
(* C32: matchesTags answers true exactly when the candidate tag and the    *)
(* tag rule have the same name, the name being the tag without the "#"     *)
(* it may be written with: "t" and "#t" match "t" and "#t" in all four     *)
(* combinations, and tags of different names never match.                  *)
(***************************************************************************)
TagName(written) ==
    IF written # <<>> /\ written[1] = "#" THEN Tail(written) ELSE written

C32_TagPrefixFree ==
    filterCall.name = "matchesTags" =>
        \A tag \in filterCall.tags, rule \in rules.tags :
            filterCall.result <=> (TagName(tag) = TagName(rule))

(* the candidate written without "#" and the rule with it *)
C32_Witness ==
    /\ filterCall.name = "matchesTags"
    /\ filterCall.result
    /\ filterCall.tags = {<<"d", "e">>}
    /\ rules.tags = {<<"#", "d", "e">>}

(***************************************************************************)
(* C33: every note an incremental drain puts into an upload request has a  *)
(* fingerprint, computed by the scan of that drain, that differs from the  *)
(* one the tracker records for its path or has none recorded; a queued     *)
(* path whose fingerprint is the recorded one is in no request.            *)
(***************************************************************************)
C33_DrainUploadsChanged ==
    [][\A k \in 1..Len(run'["drain"].sent) :
          k > Len(run["drain"].sent) =>
              \A j \in run'["drain"].sent[k].lo..run'["drain"].sent[k].hi :
                  HasChanged(tracker', run'["drain"].notes[j].path,
                             run'["drain"].notes[j].contentHash)]_vars

(***************************************************************************)
(* C34: the tracker's last-sync time changes only at the end of a run      *)
(* whose network calls and tracker writes all succeeded; when a run ends   *)
(* with the error status the time is the one the run began with.  (A       *)
(* fullSync refused because a sync is in flight changes nothing at all.)   *)
(***************************************************************************)
EndsInError(s) ==
    /\ run[s].pc # "idle"
    /\ run'[s].pc = "idle"
    /\ status'.state = "error"

Stamps(s) ==
    /\ run[s].pc # "saveTime"
    /\ run'[s].pc = "saveTime"
    /\ Len(run'[s].acked) = Len(run'[s].sent)
    /\ run'[s].i >= Len(run'[s].notes)
    /\ run'[s].deletes \cap DOMAIN tracker'.noteHashes = {}
    /\ tracker'.lastSyncTime # run'[s].stamp0

Pending == SeqToSet(pendingChanges) \cup SeqToSet(pendingDeletes)

(* the paths a drain still holds or has uploaded *)
DrainPaths(r) ==
    SeqToSet(r.toScan) \cup NotePaths(r.scanned) \cup NotePaths(r.notes) \cup r.deletes

DrainTakes == debounceArmed /\ ~debounceArmed' /\ ~isSyncing

C35_AtomicSnapshot ==
    [][/\ DrainTakes =>
             /\ pendingChanges' = <<>>
             /\ pendingDeletes' = <<>>
             /\ Pending # {} =>
                   /\ run'["drain"].pc # "idle"
                   /\ run'["drain"].deletes = SeqToSet(pendingDeletes)
                   /\ DrainPaths(run'["drain"]) \subseteq Pending
                   /\ {p \in SeqToSet(pendingChanges) : Exists(p)}
                          \subseteq DrainPaths(run'["drain"]) \cup
                                    {p \in HotPaths : ShouldExcludeNote(rules, ScanFile(p))}
       /\ ~DrainTakes =>
             /\ Pending \subseteq SeqToSet(pendingChanges') \cup SeqToSet(pendingDeletes')
             /\ run["drain"].pc # "idle" =>
                   DrainPaths(run'["drain"]) \subseteq DrainPaths(run["drain"])]_vars

(* at the last await of a drain, a path queued during it is pending and    *)
(* is none of the run's                                                    *)
C35_Witness ==
    /\ run["drain"].pc = "saveTime"
    /\ run["drain"].dirty
    /\ pendingChanges = <<PathB>>
    /\ PathB \notin DrainPaths(run["drain"])
    /\ NotePaths(run["drain"].notes) = {PathA}

(***************************************************************************)
(* C36: every path that is in a pending set is later out of both, which    *)
(* only a drain taking the sets brings about (C35); file events are        *)
(* finitely many, so from some point on no further one occurs.  The case   *)
(* named is the drain that fired during a sync and left the path pending.  *)
(***************************************************************************)
C36_PendingIsDrained ==
    \A p \in HotPaths : (p \in Pending) ~> (p \notin Pending)

(***************************************************************************)
(* C37: once stop() has returned and until start() is called, the host     *)
(* runs no timer of the manager, no check begins and syncTrigger is not    *)
(* called, also when a check was suspended on its fetch or on its sync     *)
(* when stop() was called.  (Here stop() is called by saveSettings with    *)
(* the setting switched off, and start() with it switched on: the manager  *)
(* is stopped exactly while the setting is off.)                           *)
(***************************************************************************)
C37_StopIsFinal ==
    /\ [](~mgr.scheduledSync => mgr.timers = {})
    /\ [][(~mgr.scheduledSync /\ ~mgr'.scheduledSync) =>
             /\ Len(mgr'.calls) = Len(mgr.calls)
             /\ ActiveChecks(mgr') \subseteq ActiveChecks(mgr)]_vars

(***************************************************************************)
(* Deletions of a full sync.                                               *)
(***************************************************************************)
(* the note at a path is in the vault and no rule excludes it *)
LiveNote(p) ==
    /\ Exists(p)
    /\ ~ShouldExclude(rules, PathStr(p), ExtractTags(FileAt(p).tags))

(* the delete call of a full run, which no vault event and no rule change  *)
(* has disturbed, is answered: the paths leave the server and the tracker  *)
FullSyncDeletes(s) ==
    /\ run[s].kind = "full"
    /\ ~run[s].dirty
    /\ run[s].pc = "delete"
    /\ run'[s].pc = "saveRemove"

(* C38: a full sync deletes from the server and removes from the tracker   *)
(* only paths whose note is gone from the vault or is excluded by the      *)
(* rules, also when the read of a note has failed during the run.          *)
C38_FullSyncDeletesOnlyGone ==
    [][\A s \in FullTasks :
         FullSyncDeletes(s) => \A p \in run[s].deletes : ~LiveNote(p)]_vars

(* the same for the runs that have read every note they scanned *)
C38_DeletesOnlyGoneWhenRead ==
    [][\A s \in FullTasks :
         (FullSyncDeletes(s) /\ run[s].unread = {}) =>
             \A p \in run[s].deletes : ~LiveNote(p)]_vars

(* a full run is about to delete a tracked note whose read has failed *)
C38_UnreadIsDeleted ==
    \E s \in FullTasks :
        /\ run[s].kind = "full" /\ ~run[s].dirty /\ run[s].pc = "delete"
        /\ \E p \in run[s].deletes \cap run[s].unread : LiveNote(p)

(***************************************************************************)
(* The cooldown and the refusal of fullSync.                               *)
(***************************************************************************)
(* the check k returns from a syncTrigger whose full sync has run *)
RanSyncReturns(k) ==
    /\ mgr.checks[k].pc = "sync"
    /\ mgr.checks[k].ran
    /\ mgr'.checks[k].pc = "idle"

(* C39: the manager stamps lastScheduledSync, which starts the cooldown of *)
(* MIN_SYNC_INTERVAL, only on the return of a full sync that has run; a    *)
(* call fullSync refuses because a sync is in flight leaves the time as it *)
(* was, so that a later check inside the window still triggers.            *)
C39_StampOnlyIfRan ==
    [][mgr'.lastScheduledSync # mgr.lastScheduledSync =>
           \E k \in CheckIds : RanSyncReturns(k)]_vars

(* a refused call has started the cooldown: inside the window, with no     *)
(* sync of the manager run, the next check will not trigger                *)
C39_RefusedStartsCooldown ==
    /\ mgr.lastScheduledSync # -1
    /\ ~ShouldTriggerSync(mgr)
    /\ mgr.manual
    /\ \A k \in CheckIds : mgr.checks[k].pc = "idle"
    /\ Len(mgr.calls) = 1

(***************************************************************************)
(* The exclusion rules in their three places: the checker's active rules   *)
(* (rules), the tracker's cached copy (tracker.serverExclusions) and the    *)
(* stored copy (durable.serverExclusions).  The operations that touch them *)
(* are called one after the other, each from the answer of its request to  *)
(* its return; saveData either writes the state it is handed or rejects.   *)
(***************************************************************************)
ExclusionsFrame ==
    UNCHANGED <<vault, serverNotes, pendingChanges, pendingDeletes, debounceArmed,
                isSyncing, status, run, saveExcl, ops, reconciled, clientVars,
                schedVars, defaultHashes, aliased, filterVars>>

(* exclusionChecker.updateRules(r); await tracker.updateExclusions(r) *)
TakeRules(name, r, ok) ==
    \E s \in {Save(UpdateExclusions(tracker, r), durable, ok)} :
        /\ lastOp.n < MaxTrackerOps
        /\ rules' = r
        /\ tracker' = UpdateExclusions(tracker, r)
        /\ durable' = s.stored
        /\ lastOp' = [rules |-> r, name |-> name, n |-> lastOp.n + 1,
                      before |-> tracker, stored |-> durable, called |-> TRUE,
                      handed |-> s.handed, ok |-> ok, threw |-> s.threw] @@ NoOp

(* refreshExclusions: the rules the server answers with are taken *)
RefreshExclusions(ok) ==
    /\ TakeRules("refreshExclusions", serverRules, ok)
    /\ UNCHANGED serverRules
    /\ ExclusionsFrame

(* Save Exclusions: the server has accepted the parsed rules *)
SaveExclusionsAccepted(folderInput, tagInput, ok) ==
    /\ \E r \in {[folders |-> ParseFolderExclusions(folderInput),
                  tags |-> ParseTagExclusions(tagInput)]} :
          /\ TakeRules("saveExclusions", r, ok)
          /\ serverRules' = r
    /\ ExclusionsFrame

(* the Reset button and the full-sync command: tracker.reset() *)
ResetSyncState(ok) == CallReset(ok)

ExclusionsNext ==
    \/ \E ok \in BOOLEAN : RefreshExclusions(ok)
    \/ \E fi \in FolderInputs, ti \in TagInputs, ok \in BOOLEAN :
          SaveExclusionsAccepted(fi, ti, ok)
    \/ \E ok \in BOOLEAN : ResetSyncState(ok)

ExclusionsSpec == Startup /\ [][ExclusionsNext]_vars

(* what a restart gives the checker: the cached rules of the loaded state *)
RulesAfterRestart == durable.serverExclusions

(* C40: after every operation on the rules whose write succeeded (refresh  *)
(* from the server, Save Exclusions, reset of the tracker), the rules      *)
(* cached in the stored sync state are the rules the checker applies, so   *)
(* that a restart filters as before.                                       *)
C40_CachedRulesAreActive ==
    (lastOp.n = 0 \/ lastOp.ok) => RulesAfterRestart = rules

(* the same without the reset *)
C40_CachedUnlessReset ==
    (lastOp.n = 0 \/ (lastOp.ok /\ lastOp.name # "reset")) => RulesAfterRestart = rules

(* after a reset that was written, a note the checker excludes would be    *)
(* kept by the checker a restart builds                                    *)
C40_ResetForgetsRules ==
    /\ lastOp.name = "reset"
    /\ lastOp.ok
    /\ ShouldExclude(rules, PathStr(PathB), {})
    /\ ~ShouldExclude(RulesAfterRestart, PathStr(PathB), {})

====
